---- MODULE Spec2Model ----
\* A model of eve_elastic/elastic.py: the Elastic data layer of Eve on top of
\* Elasticsearch.
\*
\* Representation of JSON / Python values:
\*   dict    a function whose domain is a set of strings (the keys present)
\*   list    a sequence where the code holds a list in a fixed place;
\*           [list |-> seq] where a list stands where an object could stand
\*   None    the record None below
\*   string  a TLA+ string, or a sequence of one-character strings where the
\*           code looks at the characters (the free-text term q)
EXTENDS Integers, Sequences, FiniteSets, TLC

VARIABLES
    config,         \* app.config: DOMAIN (config.domain) and the ELASTICSEARCH_* / <prefix>_* settings
    elastics,       \* self.elastics: connection prefix -> client instance
    created,        \* the number of client instances get_es has constructed
    threads,        \* elastic(): each concurrent caller's position and locals
    store,          \* the engine: the documents held, each [index, _id, _source, routing]
    next_id,        \* the engine: the number of identifiers it has assigned
    indices,        \* the engine: index name -> [mappings, settings, aliases]
    calls,          \* the engine calls issued by the operation that ran last
    result,         \* what the operation that ran last returned or raised
    reply,          \* the engine's answer to the search, get or mget of the last read
    phase,          \* the position of the call under way, or the operation that ran last
    resource,       \* the resource the operation is asked for
    args,           \* find: req.args
    req,            \* find: req.where, req.sort, req.max_results, req.page
    lookup,         \* find: sub_resource_lookup
    query,          \* find: the query document handed to search(body=query)
    resolved,       \* _resource_index: what the last call returned
    counted,        \* ElasticCursor.count: what the last call returned
    input           \* the argument of the function or handler called on its own

clientVars == <<elastics, created, threads>>
engineVars == <<store, next_id, indices>>
findVars == <<phase, resource, args, req, lookup, query>>
vars == <<config, clientVars, engineVars, calls, result, reply, findVars, resolved, counted, input>>

----------------------------------------------------------------------------
\* Python values

None == [null |-> TRUE]
EmptyDict == [k \in {} |-> TRUE]

\* [f for f in xs if f is not None]
RECURSIVE NotNone(_)
NotNone(xs) ==
    IF xs = <<>> THEN <<>>
    ELSE IF Head(xs) = None THEN NotNone(Tail(xs))
         ELSE <<Head(xs)>> \o NotNone(Tail(xs))

\* dict.setdefault(key, value)
SetDefault(d, key, value) == IF key \in DOMAIN d THEN d ELSE d @@ (key :> value)

\* d[key] = value
SetItem(d, key, value) == [k \in DOMAIN d \cup {key} |-> IF k = key THEN value ELSE d[k]]

\* d.get(key, default)
Get(d, key, default) == IF key \in DOMAIN d THEN d[key] ELSE default

\* The outcome of a call that may raise.
Returned(value) == [raised |-> "no", value |-> value]
Raised(exception) == [raised |-> exception, value |-> None]

----------------------------------------------------------------------------
\* Configuration and index resolution
\*
\* Resource names, the index prefix and index names are sequences of name
\* parts, so that prefixing is concatenation and str.replace can be followed.
\* config.INDEXES[px], config.URL[px], config.FORCE_REFRESH[px] stand for the
\* settings '<px>_INDEXES', '<px>_URL', '<px>_FORCE_REFRESH', present or not.

\* s.replace(p, ''): every occurrence of p is removed, left to right.
RECURSIVE Replace(_, _)
Replace(s, p) ==
    IF p = <<>> \/ Len(s) < Len(p) THEN s
    ELSE IF SubSeq(s, 1, Len(p)) = p THEN Replace(SubSeq(s, Len(p) + 1, Len(s)), p)
    ELSE <<Head(s)>> \o Replace(Tail(s), p)

\* get_datasource(resource)[0]: the `source` of the resource's datasource,
\* the resource itself when none is declared.
datasource_source(cfg, resource_) ==
    Get(Get(cfg.domain[resource_], "datasource", EmptyDict), "source", resource_)

\* get_datasource(resource)[3]
_default_sort(cfg, resource_) ==
    Get(Get(cfg.domain[resource_], "datasource", EmptyDict), "default_sort", <<>>)

\* The connection prefix of a resource; DOMAIN[resource] of a name that is
\* no resource raises KeyError.
_resource_prefix(cfg, resource_) ==
    LET stripped == IF cfg.ELASTICSEARCH_INDEX_PREFIX # <<>>
                    THEN Replace(resource_, cfg.ELASTICSEARCH_INDEX_PREFIX)
                    ELSE resource_
    IN  IF stripped = <<>> THEN Returned("ELASTICSEARCH")
        ELSE IF stripped \notin DOMAIN cfg.domain THEN Raised("KeyError")
        ELSE Returned(Get(cfg.domain[stripped], "elastic_prefix", "ELASTICSEARCH"))

\* app.config.get('<px>_<key>', default)
_resource_config(cfg, resource_, key, default) ==
    LET px == _resource_prefix(cfg, resource_)
    IN  IF px.raised # "no" THEN px
        ELSE Returned(Get(cfg[key], px.value, default))

_get_index_prefix(cfg, index) ==
    IF index # <<>> /\ cfg.ELASTICSEARCH_INDEX_PREFIX # <<>>
    THEN cfg.ELASTICSEARCH_INDEX_PREFIX \o index
    ELSE index

\* _resource_index with the default index derived from the source resource.
_resource_index_of_source(cfg, resource_) ==
    IF resource_ \notin DOMAIN cfg.domain THEN Raised("KeyError")
    ELSE LET indexes == _resource_config(cfg, resource_, "INDEXES", EmptyDict)
             default_index == _get_index_prefix(cfg, datasource_source(cfg, resource_))
         IN  IF indexes.raised # "no" THEN indexes
             ELSE Returned(Get(indexes.value, datasource_source(cfg, resource_), default_index))

_resource_index(cfg, resource_) ==
    IF resource_ \notin DOMAIN cfg.domain THEN Raised("KeyError")
    ELSE LET indexes == _resource_config(cfg, resource_, "INDEXES", EmptyDict)
             default_index == _get_index_prefix(cfg, resource_)
         IN  IF indexes.raised # "no" THEN indexes
             ELSE Returned(Get(indexes.value, datasource_source(cfg, resource_), default_index))

----------------------------------------------------------------------------
\* Clients and engine calls

\* get_es(url): a new client instance each time it is called.
get_es(url, created_) == [instance |-> created_ + 1, url |-> url]

\* elastic(resource) run without interruption: the cache after the call, the
\* number of instances constructed, and the client returned. The assert on a
\* missing url raises AssertionError.
elastic(cfg, elastics_, created_, resource_) ==
    LET px == _resource_prefix(cfg, resource_)
    IN  IF px.raised # "no"
        THEN [raised |-> px.raised, elastics |-> elastics_, created |-> created_]
        ELSE IF px.value \in DOMAIN elastics_
        THEN [raised |-> "no", elastics |-> elastics_, created |-> created_,
              client |-> elastics_[px.value]]
        ELSE IF px.value \notin DOMAIN cfg.URL
        THEN [raised |-> "AssertionError", elastics |-> elastics_, created |-> created_]
        ELSE [raised |-> "no",
              elastics |-> SetItem(elastics_, px.value, get_es(cfg.URL[px.value], created_)),
              created |-> created_ + 1,
              client |-> get_es(cfg.URL[px.value], created_)]

\* _es_args(resource, refresh, source_projections): the index and doc_type
\* arguments of an engine call.
_es_args(cfg, resource_, refresh, source_projections) ==
    LET index == _resource_index(cfg, resource_)
        base == [index |-> index.value, doc_type |-> "doc"]
        projected == IF source_projections # <<>>
                     THEN SetItem(base, "_source", source_projections) ELSE base
        refreshed == IF refresh THEN SetItem(projected, "refresh", TRUE) ELSE projected
    IN  IF index.raised # "no" THEN index ELSE Returned(refreshed)

----------------------------------------------------------------------------
\* Result normalisation
\*
\* A stored value is None, a string [str |-> kind, t |-> moment] or a list
\* [list |-> values]. The kind of a string says which parser reads it: "iso"
\* (ciso8601 and arrow), "lenient" (arrow only), "malformed" (neither),
\* "empty" (the empty string), "text" (not meant as a date; neither parser).
\* A parsed date is [date |-> moment].

IsString(v) == "str" \in DOMAIN v
IsList(v) == "list" \in DOMAIN v

\* ciso8601.parse_datetime: None for a string it cannot read, TypeError for
\* a value that is no string.
ciso8601_parse_datetime(v) ==
    IF ~IsString(v) THEN Raised("TypeError")
    ELSE IF v.str = "iso" THEN Returned([date |-> v.t])
    ELSE Returned(None)

\* arrow.get(v).datetime
arrow_get(v) ==
    IF ~IsString(v) THEN Raised("TypeError")
    ELSE IF v.str \in {"iso", "lenient"} THEN Returned([date |-> v.t])
    ELSE Raised("ParserError")

parse_date(date_str) ==
    IF date_str = None \/ (IsString(date_str) /\ date_str.str = "empty")
       \/ (IsList(date_str) /\ date_str.list = <<>>)
    THEN Returned(None)
    ELSE LET first == ciso8601_parse_datetime(date_str)
         IN  IF first.raised = "TypeError"
             THEN \* except TypeError: a failure in the handler is not caught
                  IF IsList(date_str) THEN arrow_get(date_str.list[1])
                  ELSE Raised("TypeError")
             ELSE IF first.value # None THEN first
             ELSE LET second == arrow_get(date_str)
                  IN  IF second.raised = "ParserError" THEN Returned(None) ELSE second

LAST_UPDATED == "_updated"
DATE_CREATED == "_created"
ID_FIELD == "_id"

\* schema maps a field to its descriptor.
get_dates_of_schema_only(schema) ==
    {field \in DOMAIN schema :
        "type" \in DOMAIN schema[field] /\ schema[field].type = "datetime"}

get_dates(schema) ==
    {LAST_UPDATED, DATE_CREATED}
    \cup {field \in DOMAIN schema :
            "type" \in DOMAIN schema[field] /\ schema[field].type = "datetime"}

\* The loop of format_doc over the date keys of the document.
RECURSIVE ParseDates(_, _)
ParseDates(doc, keys) ==
    IF keys = {} THEN Returned(doc)
    ELSE LET key == CHOOSE k \in keys : TRUE
             parsed == parse_date(doc[key])
         IN  IF parsed.raised # "no" THEN parsed
             ELSE ParseDates(SetItem(doc, key, parsed.value), keys \ {key})

format_doc(hit, schema, dates) ==
    LET source == Get(hit, "_source", EmptyDict)
        with_id == SetDefault(source, ID_FIELD, Get(hit, "_id", None))
        with_type == SetDefault(with_id, "_type", Get(hit, "_type", None))
        with_highlight ==
            IF Get(hit, "highlight", None) # None /\ DOMAIN hit.highlight # {}
            THEN SetItem(with_type, "es_highlight", hit.highlight)
            ELSE with_type
    IN  ParseDates(with_highlight, dates \cap DOMAIN with_highlight)

\* ElasticCursor
no_hits == "hits" :> [total |-> [int |-> 0], hits |-> <<>>]

ElasticCursor(hits, docs) ==
    [hits |-> IF DOMAIN hits # {} THEN hits ELSE no_hits, docs |-> docs]

first(cursor_) == IF cursor_.docs # <<>> THEN cursor_.docs[1] ELSE None

\* int(): a number is [int |-> n], a string of digits [digits |-> seq].
DigitValue(c) ==
    CASE c = "0" -> 0 [] c = "1" -> 1 [] c = "2" -> 2 [] c = "3" -> 3 [] c = "4" -> 4
      [] c = "5" -> 5 [] c = "6" -> 6 [] c = "7" -> 7 [] c = "8" -> 8 [] c = "9" -> 9

RECURSIVE DigitsValue(_)
DigitsValue(digits) ==
    IF digits = <<>> THEN 0
    ELSE 10 * DigitsValue(SubSeq(digits, 1, Len(digits) - 1)) + DigitValue(digits[Len(digits)])

int(v) == IF "int" \in DOMAIN v THEN v.int ELSE DigitsValue(v.digits)

count_of_docs(cursor_) == Len(cursor_.docs)

count(cursor_) ==
    int(Get(Get(cursor_.hits, "hits", EmptyDict), "total", [digits |-> <<"0">>]))

\* schema of the source resource, updated with the schema of the resource.
merged_schema(cfg, resource_) ==
    LET own == Get(cfg.domain[resource_], "schema", EmptyDict)
        base == Get(cfg.domain[datasource_source(cfg, resource_)], "schema", EmptyDict)
    IN  [field \in DOMAIN own \cup DOMAIN base |->
            IF field \in DOMAIN own THEN own[field] ELSE base[field]]

RECURSIVE FormatDocs(_, _, _)
FormatDocs(hit_list, schema, dates) ==
    IF hit_list = <<>> THEN Returned(<<>>)
    ELSE LET doc == format_doc(Head(hit_list), schema, dates)
             rest == FormatDocs(Tail(hit_list), schema, dates)
         IN  IF doc.raised # "no" THEN doc
             ELSE IF rest.raised # "no" THEN rest
             ELSE Returned(<<doc.value>> \o rest.value)

_parse_hits(cfg, hits, resource_) ==
    IF datasource_source(cfg, resource_) \notin DOMAIN cfg.domain THEN Raised("KeyError")
    ELSE LET schema == merged_schema(cfg, resource_)
             docs == FormatDocs(Get(Get(hits, "hits", EmptyDict), "hits", <<>>),
                                schema, get_dates(schema))
         IN  IF docs.raised # "no" THEN docs
             ELSE Returned(ElasticCursor(hits, docs.value))

----------------------------------------------------------------------------
\* The engine, as far as the layer sees it

RECURSIVE SetToSeq(_)
SetToSeq(S) ==
    IF S = {} THEN <<>>
    ELSE LET x == CHOOSE y \in S : TRUE IN <<x>> \o SetToSeq(S \ {x})

\* The hit the engine returns for a stored document; a search that asked
\* for highlights may get them per hit.
Hit(stored, highlighted) ==
    LET hit == [_index |-> stored.index, _type |-> "doc", _id |-> stored._id,
                _source |-> stored._source]
    IN  IF highlighted THEN hit @@ ("highlight" :> ("name" :> "<span>foo</span>")) ELSE hit

InIndex(store_, index) == {stored \in store_ : stored.index = index}

\* What a search on an index may answer: some of the documents of the index
\* as hits, under a total that counts every match, or a failure. The error of
\* a failure is the set of phrases its message contains.
SearchErrors ==
    [exception : {"RequestError"}, status_code : {400},
     error : SUBSET {"No mapping found for", "SearchParseException"}]
    \cup [exception : {"TransportError"}, status_code : {500}, error : {{}}]
    \cup [exception : {"NotFoundError"}, status_code : {404}, error : {{}}]

\* The hits never outnumber the size asked for, in the body or as a keyword;
\* the total counts the hits returned or every document of the index;
\* highlights come only when the body asks for them.
SearchReplies(store_, es_args_, body) ==
    UNION { { "hits" :> [total |-> [int |-> total],
                         hits |-> [i \in 1..Cardinality(chosen) |->
                                      Hit(SetToSeq(chosen)[i], highlighted)]] :
                total \in {Cardinality(chosen), Cardinality(InIndex(store_, es_args_.index))},
                highlighted \in IF "highlight" \in DOMAIN body THEN BOOLEAN ELSE {FALSE} } :
            chosen \in {c \in SUBSET InIndex(store_, es_args_.index) :
                           /\ "size" \in DOMAIN body => Cardinality(c) <= body.size
                           /\ "size" \in DOMAIN es_args_ => Cardinality(c) <= es_args_.size} }
    \cup SearchErrors

\* index(body, id): the engine assigns an identifier when none is given and
\* replaces the document that holds the identifier already.
GeneratedId(n) == [str |-> "generated", t |-> n]

Index(store_, next_id_, kwargs, _id, body) ==
    LET assigned == IF _id = None THEN GeneratedId(next_id_) ELSE _id
        stored == [index |-> kwargs.index, _id |-> assigned, _source |-> body,
                   routing |-> Get(kwargs, "routing", None)]
    IN  [store |-> {s \in store_ : ~(s.index = kwargs.index /\ s._id = assigned)}
                   \cup {stored},
         next_id |-> IF _id = None THEN next_id_ + 1 ELSE next_id_,
         _id |-> assigned]

\* get(id): the document, a miss (as an answer or as NotFoundError), or a
\* transport failure, among them the one that asks for routing.
GetReplies(store_, es_args_, _id) ==
    {Hit(s, FALSE) @@ [found |-> TRUE] :
        s \in {s \in InIndex(store_, es_args_.index) : s._id = _id}}
    \cup {[found |-> FALSE]}
    \cup [exception : {"NotFoundError"}, status_code : {404}, error : {"not_found"}]
    \cup [exception : {"TransportError"}, status_code : {400},
          error : {"routing_missing_exception", "RoutingMissingException[routing is required]",
                   "other"}]

\* mget(body={'ids': ids}): one entry per identifier, under `docs`.
MgetReply(store_, es_args_, ids) ==
    "docs" :> [list |-> [i \in 1..Len(ids) |->
                  IF \E s \in InIndex(store_, es_args_.index) : s._id = ids[i]
                  THEN Hit(CHOOSE s \in InIndex(store_, es_args_.index) : s._id = ids[i], FALSE)
                       @@ [found |-> TRUE]
                  ELSE [_index |-> es_args_.index, _type |-> "doc", _id |-> ids[i],
                        found |-> FALSE]]]

IsFailure(reply_) == "exception" \in DOMAIN reply_

----------------------------------------------------------------------------
\* Query building

\* str.strip(): leading and trailing whitespace removed;
\* str.strip('"'): every leading and trailing double quote removed.
RECURSIVE LStrip(_, _)
LStrip(s, c) == IF s # <<>> /\ Head(s) = c THEN LStrip(Tail(s), c) ELSE s

RECURSIVE RStrip(_, _)
RStrip(s, c) ==
    IF s # <<>> /\ s[Len(s)] = c THEN RStrip(SubSeq(s, 1, Len(s) - 1), c) ELSE s

Strip(s, c) == RStrip(LStrip(s, c), c)

_is_phrase_search(query_string) ==
    LET clean_query == Strip(query_string, " ")
    IN  /\ clean_query # <<>>
        /\ Head(clean_query) = "\""
        /\ clean_query[Len(clean_query)] = "\""

_get_phrase_keeps_quotes(query_string) == Strip(query_string, " ")

_get_phrase(query_string) == Strip(Strip(query_string, " "), "\"")

\* default_field is accepted and not used: the line that used it is a comment.
_build_query_string(q, default_field, default_operator) ==
    IF _is_phrase_search(q)
    THEN "match_phrase" :> ("all" :> _get_phrase(q))
    ELSE "query_string" :> [query |-> q, default_operator |-> default_operator]

\* lookup is a dict, here the sequence of its items in iteration order; the
\* result is one list of term clauses.
_build_lookup_filter(lookup_) ==
    [list |-> [i \in 1..Len(lookup_) |-> "term" :> (lookup_[i].key :> lookup_[i].val)]]

\* Python truth value of a list (wrapped) or a dict.
Truthy(v) ==
    /\ v # None
    /\ IF "list" \in DOMAIN v THEN v.list # <<>>
       ELSE IF "int" \in DOMAIN v THEN v.int # 0 ELSE DOMAIN v # {}

\* set_filters with the emptiness tests of lines 159-162 left out.
set_filters_always_sets(query_, must_filter, base_filters) ==
    LET bool == Get(query_.query, "bool", EmptyDict)
    IN  Returned(SetItem(query_, "query",
            SetItem(query_.query, "bool",
                [must |-> NotNone(must_filter), filter |-> NotNone(base_filters.list)] @@ bool)))

\* base_filters is a list, or None when the caller leaves it out: iterating
\* None raises TypeError.
set_filters(query_, must_filter, base_filters) ==
    IF base_filters = None THEN Raised("TypeError")
    ELSE
    LET must_filters == NotNone(must_filter)
        query_filter == Get(query_.query, "filter", None)
        filters == IF query_filter # None THEN query_filter
                   ELSE [list |-> NotNone(base_filters.list)]
        with_bool ==
            IF "bool" \notin DOMAIN query_.query /\ (must_filters # <<>> \/ Truthy(filters))
            THEN SetItem(query_.query, "bool", EmptyDict)
            ELSE query_.query
        with_must ==
            IF must_filters # <<>>
            THEN SetItem(with_bool, "bool", SetItem(with_bool.bool, "must", must_filters))
            ELSE with_bool
        with_filter ==
            IF Truthy(filters)
            THEN SetItem(with_must, "bool",
                         SetItem(with_must.bool, "filter",
                                 IF "list" \in DOMAIN filters THEN filters.list ELSE filters))
            ELSE with_must
    IN  Returned(SetItem(query_, "query", with_filter))

\* sort is a list of (key, sortdir) pairs.
set_sort(query_, sort) ==
    SetItem(query_, "sort",
            [i \in 1..Len(sort) |->
                sort[i].key :> [order |-> IF sort[i].sortdir > 0 THEN "asc" ELSE "desc",
                                unmapped_type |-> "long"]])

BoolShell == "query" :> ("bool" :> EmptyDict)

\* find, the source override: the query document find starts from and the
\* filter taken out of the override.
find_source(args_) ==
    IF "source" \in DOMAIN args_
    THEN LET loaded == args_.source
             _query == Get(loaded, "query", None)
         IN  IF "filter" \in DOMAIN Get(loaded, "query", EmptyDict)
             THEN [query |-> SetItem(loaded, "query", "bool" :> EmptyDict),
                   source_filter |-> IF DOMAIN _query # {} THEN _query.filter ELSE None]
             ELSE [query |-> BoolShell, source_filter |-> _query]
    ELSE [query |-> BoolShell, source_filter |-> None]

\* should_aggregate, should_highlight: int() of a missing argument raises and
\* the answer is False.
should_aggregate(cfg, args_) ==
    \/ cfg.ELASTICSEARCH_AUTO_AGGREGATIONS
    \/ (DOMAIN args_ # {} /\ "aggregations" \in DOMAIN args_ /\ args_.aggregations # 0)

should_highlight(args_) == DOMAIN args_ # {} /\ Get(args_, "es_highlight", 0) # 0

\* The resource's highlight callback, called with query['query']: one that
\* yields a highlight spec for the query, or one that yields nothing.
es_highlight(callback, query_string) ==
    IF callback = "highlight_callback" /\ DOMAIN query_string # {}
    THEN "fields" :> ("name" :> [number_of_fragments |-> 0, highlight_query |-> query_string])
    ELSE None

\* find, lines 503-506: the resource's static filter, what its filter callback
\* returns (noop, so None, when it has none) and the filter of the override.
find_filters_without_source(source_config, source_filter) ==
    << Get(source_config, "elastic_filter", None),
       Get(source_config, "elastic_filter_callback", None) >>

find_filters_replaced_by_source(source_config, source_filter) ==
    IF source_filter # None THEN <<source_filter>>
    ELSE << Get(source_config, "elastic_filter", None),
            Get(source_config, "elastic_filter_callback", None) >>

find_filters(source_config, source_filter) ==
    << Get(source_config, "elastic_filter", None),
       Get(source_config, "elastic_filter_callback", None),
       source_filter >>

\* find up to the search call: the query document built for the request, or
\* abort(400) for a where clause neither parser accepts.
find_query(cfg, resource_, args_, req_, lookup_) ==
    LET source_config == cfg.domain[resource_].datasource  \* config.SOURCES[resource]
        from_source == find_source(args_)
        source_filter == from_source.source_filter
        q_filter ==
            IF "q" \in DOMAIN args_ /\ args_.q # <<>>
            THEN <<_build_query_string(args_.q, Get(args_, "df", "all"),
                                       Get(args_, "default_operator", "OR"))>>
            ELSE <<>>
        sorted ==
            IF "sort" \in DOMAIN from_source.query THEN from_source.query
            ELSE IF req_.sort # <<>> THEN set_sort(from_source.query, req_.sort)
            ELSE IF _default_sort(cfg, resource_) # <<>>
                 THEN set_sort(from_source.query, _default_sort(cfg, resource_))
            ELSE from_source.query
        sized == IF req_.max_results # 0 THEN SetDefault(sorted, "size", req_.max_results)
                 ELSE sorted
        paged == IF req_.page > 1
                 THEN SetDefault(sized, "from", (req_.page - 1) * req_.max_results)
                 ELSE sized
        filters == find_filters(source_config, source_filter)
        must_filter ==
            q_filter
            \o << IF lookup_ # <<>> THEN _build_lookup_filter(lookup_) ELSE None >>
            \o << Get(args_, "filter", None) >>
            \o Get(args_, "filters", <<>>)
        where_filters ==
            IF req_.where = None THEN filters
            ELSE IF "json" \in DOMAIN req_.where THEN Append(filters, "term" :> req_.where.json)
            ELSE IF "expr" \in DOMAIN req_.where THEN Append(filters, "term" :> req_.where.expr)
            ELSE filters
        filtered == set_filters(paged, must_filter, [list |-> where_filters]).value
        faceted == IF "facets" \in DOMAIN source_config
                   THEN SetItem(filtered, "facets", source_config.facets)
                   ELSE filtered
        aggregated ==
            IF "aggregations" \in DOMAIN source_config /\ should_aggregate(cfg, args_)
            THEN SetItem(faceted, "aggs", source_config.aggregations)
            ELSE faceted
        highlights ==
            IF "es_highlight" \in DOMAIN source_config /\ should_highlight(args_)
            THEN es_highlight(source_config.es_highlight, aggregated.query)
            ELSE None
        highlighted ==
            IF Truthy(highlights)
            THEN SetItem(aggregated, "highlight",
                         SetDefault(highlights, "require_field_match", FALSE))
            ELSE aggregated
    IN  IF req_.where # None /\ "invalid" \in DOMAIN req_.where
        THEN Raised("abort400")
        ELSE Returned(highlighted)

----------------------------------------------------------------------------
\* The requests and configurations find is run on

TermUriFoo == "term" :> ("uri" :> "foo")
TermUriBar == "term" :> ("uri" :> "bar")
TermNameFoo == "term" :> ("name" :> "foo")
ExistsDescription == "exists" :> ("field" :> "description")

\* All ways of taking at most one dict of each set of a sequence of sets of
\* dicts with distinct keys, merged.
RECURSIVE Merged(_)
Merged(choices) ==
    IF choices = <<>> THEN {EmptyDict}
    ELSE {d @@ rest : d \in Head(choices) \cup {EmptyDict}, rest \in Merged(Tail(choices))}

\* json.loads(args['source'])
SourceDocs ==
    { EmptyDict,
      "query" :> TermUriFoo,
      "query" :> ("filter" :> TermUriBar),
      [query |-> "filter" :> [list |-> <<TermUriFoo, TermUriBar>>],
       sort |-> <<"uri" :> [order |-> "asc"]>>] }

FreeText == { <<"f", "o">>, <<"\"", "f", " ", "o", "\"">> }

Args ==
    Merged(<< {"source" :> d : d \in SourceDocs},
              {"q" :> t : t \in FreeText},
              {[df |-> "name", default_operator |-> "AND"]},
              {"filter" :> TermNameFoo,
               [filter |-> None, filters |-> <<None, TermUriFoo>>]},
              {"aggregations" :> 1, "es_highlight" :> 1} >>)

\* req.where is None, or a string that json.loads reads (json), that only
\* eve's parse reads (expr), or that neither reads (invalid).
Reqs ==
    [ where : {None, [json |-> "name" :> "foo"], [invalid |-> TRUE]},
      sort : {<<>>},
      max_results : {0},
      page : {1} ]
    \cup
    [ where : {[expr |-> "name" :> "foo"]},
      sort : {<<[key |-> "uri", sortdir |-> 1]>>},
      max_results : {25},
      page : {2} ]

Lookups ==
    { <<>>,
      <<[key |-> "name", val |-> "foo"]>>,
      <<[key |-> "name", val |-> "foo"], [key |-> "uri", val |-> "foo"]>> }

\* The datasource of a resource (config.SOURCES[resource]);
\* elastic_filter_callback stands for what the callback returns.
Datasources ==
    Merged(<< {"elastic_filter" :> ExistsDescription},
              {"elastic_filter_callback" :> None, "elastic_filter_callback" :> TermUriFoo},
              {[default_sort |-> <<[key |-> "firstcreated", sortdir |-> -1]>>,
                aggregations |-> "type" :> "terms",
                es_highlight |-> "highlight_callback"]} >>)

Items == <<"items">>

\* app.config after init_app (the defaults of lines 216-227) for a domain of
\* one resource.
FindConfigs ==
    { cfg \in [ domain : {Items :> [datasource |-> d] : d \in Datasources},
                ELASTICSEARCH_INDEX_PREFIX : {<<>>},
                INDEXES : {"ELASTICSEARCH" :> EmptyDict},
                URL : {"ELASTICSEARCH" :> "http://localhost:9200/"},
                FORCE_REFRESH : {"ELASTICSEARCH" :> TRUE},
                ELASTICSEARCH_AUTO_AGGREGATIONS : BOOLEAN ] :
        cfg.ELASTICSEARCH_AUTO_AGGREGATIONS
        \/ "aggregations" \in DOMAIN cfg.domain[Items].datasource }

----------------------------------------------------------------------------
\* The parts of the state an operation does not use

NoClients ==
    /\ elastics = EmptyDict
    /\ created = 0
    /\ threads = EmptyDict

EmptyEngine ==
    /\ store = {}
    /\ next_id = 0
    /\ indices = EmptyDict

NoCall ==
    /\ calls = <<>>
    /\ result = None
    /\ reply = None

----------------------------------------------------------------------------
\* find

InitFind ==
    /\ config \in FindConfigs
    /\ NoClients
    /\ EmptyEngine
    /\ NoCall
    /\ phase = "start"
    /\ resource = Items
    /\ args \in Args
    /\ req \in Reqs
    /\ lookup \in Lookups
    /\ query = None
    /\ resolved = None
    /\ counted = None
    /\ input = None

\* find, lines 461-542: the query document is built, or the call aborts.
FindBuild ==
    /\ phase = "start"
    /\ LET built == find_query(config, resource, args, req, lookup)
       IN  IF built.raised = "no"
           THEN /\ phase' = "search"
                /\ query' = built.value
                /\ result' = result
           ELSE /\ phase' = "done"
                /\ query' = query
                /\ result' = built
    /\ UNCHANGED <<config, clientVars, engineVars, calls, reply,
                   resource, args, req, lookup, resolved, counted, input>>

\* should_project, get_projected_fields: the projected field names, which
\* the code joins with commas.
source_projections(args_) == Get(args_, "projections", <<>>)

\* find, lines 544-554: what find makes of the engine's answer.
find_result_empty_on_every_400(cfg, reply_, resource_) ==
    IF IsFailure(reply_)
    THEN IF reply_.exception = "RequestError"
         THEN _parse_hits(cfg, EmptyDict, resource_)
         ELSE Raised(reply_.exception)
    ELSE _parse_hits(cfg, reply_, resource_)

find_result(cfg, reply_, resource_) ==
    IF IsFailure(reply_)
    THEN IF reply_.exception = "RequestError"
         THEN IF reply_.status_code = 400 /\ "No mapping found for" \in reply_.error
              THEN _parse_hits(cfg, EmptyDict, resource_)
              ELSE IF reply_.status_code = 400 /\ "SearchParseException" \in reply_.error
              THEN Raised("InvalidSearchString")
              ELSE Raised("RequestError")
         ELSE Raised(reply_.exception)
    ELSE _parse_hits(cfg, reply_, resource_)

\* find, lines 542-554: the search is issued and its answer parsed. The call
\* returns: its arguments and its query are gone.
FindSearch ==
    /\ phase = "search"
    /\ LET es_args == _es_args(config, resource, FALSE, source_projections(args))
           client == elastic(config, elastics, created, resource)
       IN  IF es_args.raised # "no"
           THEN /\ result' = es_args
                /\ UNCHANGED <<clientVars, calls, reply>>
           ELSE IF client.raised # "no"
           THEN /\ result' = Raised(client.raised)
                /\ UNCHANGED <<clientVars, calls, reply>>
           ELSE \E reply_ \in SearchReplies(store, es_args.value, query) :
                    /\ elastics' = client.elastics
                    /\ created' = client.created
                    /\ UNCHANGED threads
                    /\ calls' = <<[op |-> "search", body |-> query, args |-> es_args.value]>>
                    /\ reply' = reply_
                    /\ result' = find_result(config, reply_, resource)
    /\ phase' = "done"
    /\ args' = EmptyDict
    /\ req' = None
    /\ lookup' = <<>>
    /\ query' = None
    /\ UNCHANGED <<config, engineVars, resource, resolved, counted, input>>

NextFind ==
    \/ FindBuild
    \/ FindSearch

SpecFind == InitFind /\ [][NextFind]_vars

----------------------------------------------------------------------------
\* _build_query_string on its own

MaxQLen == 3

QChars == {"\"", " ", "f"}

Strings(chars, n) == UNION {[1..len -> chars] : len \in 0..n}

DefaultConfig ==
    [ domain |-> Items :> [datasource |-> EmptyDict],
      ELASTICSEARCH_INDEX_PREFIX |-> <<>>,
      INDEXES |-> "ELASTICSEARCH" :> EmptyDict,
      URL |-> "ELASTICSEARCH" :> "http://localhost:9200/",
      FORCE_REFRESH |-> "ELASTICSEARCH" :> TRUE,
      ELASTICSEARCH_AUTO_AGGREGATIONS |-> TRUE ]

InitQueryString ==
    /\ config = DefaultConfig
    /\ NoClients
    /\ EmptyEngine
    /\ NoCall
    /\ phase = "start"
    /\ resource = Items
    /\ args \in {("q" :> q) @@ d : q \in Strings(QChars, MaxQLen),
                                  d \in {EmptyDict, [df |-> "name", default_operator |-> "AND"]}}
    /\ req = None
    /\ lookup = <<>>
    /\ query = None
    /\ resolved = None
    /\ counted = None
    /\ input = None

BuildQueryString ==
    /\ phase = "start"
    /\ phase' = "built"
    /\ result' = Returned(_build_query_string(args.q, Get(args, "df", "all"),
                                              Get(args, "default_operator", "OR")))
    /\ UNCHANGED <<config, clientVars, engineVars, calls, reply,
                   resource, args, req, lookup, query, resolved, counted, input>>

NextQueryString == BuildQueryString

SpecQueryString == InitQueryString /\ [][NextQueryString]_vars

----------------------------------------------------------------------------
\* _resource_index on its own

PublishedItems == <<"published", "items">>
ItemsFoo == <<"items", "foo">>
ItemsFooDefaultIndex == <<"items", "foo", "default">>

\* The resources of the test domain that differ in source and prefix.
IndexDomain ==
    (Items :> [datasource |-> [backend |-> "elastic"]])
    @@ (PublishedItems :> [datasource |-> [source |-> Items]])
    @@ (ItemsFoo :> [datasource |-> [backend |-> "elastic"], elastic_prefix |-> "FOO"])
    @@ (ItemsFooDefaultIndex :> [datasource |-> [source |-> ItemsFoo, backend |-> "elastic"]])

IndexConfigs ==
    [ domain : {IndexDomain},
      ELASTICSEARCH_INDEX_PREFIX : {<<>>, <<"px">>, <<"items">>},
      INDEXES : {es @@ foo :
                    es \in {"ELASTICSEARCH" :> t :
                               t \in {EmptyDict, Items :> <<"idx">>,
                                      (Items :> <<"idx">>) @@ (ItemsFoo :> <<"idx", "foo">>)}},
                    foo \in {EmptyDict, "FOO" :> (ItemsFoo :> <<"foo">>)}},
      URL : {[ELASTICSEARCH |-> "http://localhost:9200/", FOO |-> "http://localhost:9200/"]},
      FORCE_REFRESH : {"ELASTICSEARCH" :> TRUE},
      ELASTICSEARCH_AUTO_AGGREGATIONS : {TRUE} ]

InitIndex ==
    /\ config \in IndexConfigs
    /\ NoClients
    /\ EmptyEngine
    /\ NoCall
    /\ phase = "start"
    /\ resource \in DOMAIN IndexDomain
    /\ args = EmptyDict
    /\ req = None
    /\ lookup = <<>>
    /\ query = None
    /\ resolved = None
    /\ counted = None
    /\ input = None

ResolveIndex ==
    /\ phase = "start"
    /\ phase' = "resolved"
    /\ resolved' = _resource_index(config, resource)
    /\ UNCHANGED <<config, clientVars, engineVars, calls, result, reply,
                   resource, args, req, lookup, query, counted, input>>

NextIndex == ResolveIndex

SpecIndex == InitIndex /\ [][NextIndex]_vars

----------------------------------------------------------------------------
\* elastic(resource) called from concurrent threads.  The method takes no
\* lock, so its lines interleave: the membership test, the construction of
\* the client, its publication in self.elastics and the final read.

NumThreads == 2

Threads == 1..NumThreads

Caller(resource_) ==
    [pc |-> "call", resource |-> resource_, px |-> "", es |-> None, returned |-> None]

ElasticConfigs ==
    [ domain : {IndexDomain},
      ELASTICSEARCH_INDEX_PREFIX : {<<>>},
      INDEXES : {EmptyDict},
      URL : {[ELASTICSEARCH |-> "http://localhost:9200/", FOO |-> "http://foo:9200/"],
             [ELASTICSEARCH |-> "http://localhost:9200/"]},
      FORCE_REFRESH : {"ELASTICSEARCH" :> TRUE},
      ELASTICSEARCH_AUTO_AGGREGATIONS : {TRUE} ]

InitElastic ==
    /\ config \in ElasticConfigs
    /\ elastics = EmptyDict
    /\ created = 0
    /\ threads \in [Threads -> {Caller(r) : r \in {Items, ItemsFoo}}]
    /\ EmptyEngine
    /\ NoCall
    /\ phase = "start"
    /\ resource = Items
    /\ args = EmptyDict
    /\ req = None
    /\ lookup = <<>>
    /\ query = None
    /\ resolved = None
    /\ counted = None
    /\ input = None

ElasticIdle == UNCHANGED <<config, engineVars, calls, result, reply, findVars, resolved, counted, input>>

\* px = self._resource_prefix(resource); if px not in self.elastics
ElasticCheck(t) ==
    /\ threads[t].pc = "call"
    /\ LET px == _resource_prefix(config, threads[t].resource)
       IN  threads' = [threads EXCEPT ![t] =
               IF px.raised # "no" THEN [@ EXCEPT !.pc = "raised"]
               ELSE [@ EXCEPT !.px = px.value,
                              !.pc = IF px.value \in DOMAIN elastics
                                     THEN "return" ELSE "construct"]]
    /\ UNCHANGED <<elastics, created>>
    /\ ElasticIdle

\* ElasticConstruct without the assert on the url: a client is constructed for
\* a missing url as well
ElasticConstruct_without_assert(t) ==
    /\ threads[t].pc = "construct"
    /\ threads' = [threads EXCEPT ![t].pc = "publish",
                                  ![t].es = get_es(Get(config.URL, threads[t].px, ""), created)]
    /\ created' = created + 1
    /\ UNCHANGED elastics
    /\ ElasticIdle

\* url = self._resource_config(resource, 'URL'); assert url; get_es(url, ...)
ElasticConstruct(t) ==
    /\ threads[t].pc = "construct"
    /\ IF threads[t].px \notin DOMAIN config.URL
       THEN /\ threads' = [threads EXCEPT ![t].pc = "raised"]
            /\ UNCHANGED created
       ELSE /\ threads' = [threads EXCEPT ![t].pc = "publish",
                                          ![t].es = get_es(config.URL[threads[t].px], created)]
            /\ created' = created + 1
    /\ UNCHANGED elastics
    /\ ElasticIdle

\* self.elastics[px] = <the client just constructed>
ElasticPublish(t) ==
    /\ threads[t].pc = "publish"
    /\ elastics' = SetItem(elastics, threads[t].px, threads[t].es)
    /\ threads' = [threads EXCEPT ![t].pc = "return"]
    /\ UNCHANGED created
    /\ ElasticIdle

\* return self.elastics[px]
ElasticReturn(t) ==
    /\ threads[t].pc = "return"
    /\ threads' = [threads EXCEPT ![t].pc = "done",
                                  ![t].returned = elastics[threads[t].px]]
    /\ UNCHANGED <<elastics, created>>
    /\ ElasticIdle

NextElastic ==
    \E t \in Threads :
        \/ ElasticCheck(t)
        \/ ElasticConstruct(t)
        \/ ElasticPublish(t)
        \/ ElasticReturn(t)

SpecElastic == InitElastic /\ [][NextElastic]_vars

----------------------------------------------------------------------------
\* A cursor over a raw hits envelope, and its count()

MaxTotal == 3
MaxHits == 2

CursorSources == {[name |-> [str |-> "text", t |-> 1]],
                  [name |-> [str |-> "text", t |-> 2], _updated |-> [str |-> "iso", t |-> 1]]}

CursorHits ==
    {[_index |-> Items, _type |-> "doc", _id |-> [str |-> "text", t |-> 1], _source |-> source] :
        source \in CursorSources}

Totals ==
    {[int |-> n] : n \in 0..MaxTotal}
    \cup {[digits |-> d] : d \in {<<"0">>, <<"3">>, <<"1", "2">>}}

\* The envelopes a search may hand to _parse_hits: nothing at all, or a
\* `hits` object with or without a total and with or without a hit list.
Envelopes ==
    {EmptyDict}
    \cup {"hits" :> body :
            body \in {[hits |-> h] : h \in Strings(CursorHits, MaxHits)}
                     \cup {[total |-> n] : n \in Totals}
                     \cup {[total |-> n, hits |-> h] :
                              n \in Totals, h \in Strings(CursorHits, MaxHits)}}

InitCursor ==
    /\ config = DefaultConfig
    /\ NoClients
    /\ EmptyEngine
    /\ calls = <<>>
    /\ result = None
    /\ reply \in Envelopes
    /\ phase = "start"
    /\ resource = Items
    /\ args = EmptyDict
    /\ req = None
    /\ lookup = <<>>
    /\ query = None
    /\ resolved = None
    /\ counted = None
    /\ input = None

\* _parse_hits(hits, resource)
ParseHits ==
    /\ phase = "start"
    /\ phase' = "parsed"
    /\ result' = _parse_hits(config, reply, resource)
    /\ UNCHANGED <<config, clientVars, engineVars, calls, reply,
                   resource, args, req, lookup, query, resolved, counted, input>>

\* cursor.count()
CursorCount ==
    /\ phase = "parsed"
    /\ result.raised = "no"
    /\ phase' = "counted"
    /\ counted' = Returned([int |-> count(result.value)])
    /\ UNCHANGED <<config, clientVars, engineVars, calls, result, reply,
                   resource, args, req, lookup, query, resolved, input>>

NextCursor == ParseHits \/ CursorCount

SpecCursor == InitCursor /\ [][NextCursor]_vars

----------------------------------------------------------------------------
\* Documents written with insert and read back with find, find_one and
\* find_list_of_ids

MaxDocs == 2

Text(n) == [str |-> "text", t |-> n]

DocsIndex == <<"idx">>

\* items declares a datetime field; published_items reads the same index
\* through source: items and declares one more.
DocsDomain ==
    (Items :> [datasource |-> [es_highlight |-> "highlight_callback"],
               schema |-> [name |-> [type |-> "string"],
                           firstcreated |-> [type |-> "datetime"]]])
    @@ (PublishedItems :> [datasource |-> [source |-> Items],
                           schema |-> [published |-> [type |-> "datetime"]]])

DocsConfig ==
    [ domain |-> DocsDomain,
      ELASTICSEARCH_INDEX_PREFIX |-> <<>>,
      INDEXES |-> "ELASTICSEARCH" :> (Items :> DocsIndex),
      URL |-> "ELASTICSEARCH" :> "http://localhost:9200/",
      FORCE_REFRESH |-> "ELASTICSEARCH" :> TRUE,
      ELASTICSEARCH_AUTO_AGGREGATIONS |-> TRUE ]

InputDocs ==
    { [name |-> Text(1), firstcreated |-> [str |-> "iso", t |-> 1]],
      [_id |-> Text(2), firstcreated |-> [str |-> "lenient", t |-> 2],
       _updated |-> [str |-> "iso", t |-> 2], published |-> [str |-> "iso", t |-> 3]],
      [_id |-> Text(2), name |-> [str |-> "iso", t |-> 1],
       firstcreated |-> [str |-> "malformed", t |-> 1], published |-> Text(4),
       es_highlight |-> Text(3)],
      [firstcreated |-> [list |-> <<[str |-> "iso", t |-> 4]>>],
       _created |-> [str |-> "empty", t |-> 0],
       join_field |-> [name |-> Text(5), parent |-> Text(2)]],
      [firstcreated |-> [list |-> <<[str |-> "malformed", t |-> 1]>>], _updated |-> None] }

DocLookups ==
    { <<[key |-> "name", val |-> Text(1)]>>,
      <<[key |-> "_id", val |-> Text(2)]>>,
      <<[key |-> "_id", val |-> GeneratedId(0)], [key |-> "parent", val |-> Text(2)]>> }

DocIds == {<<GeneratedId(0), Text(2)>>}

DocArgs == {EmptyDict, [es_highlight |-> 1]}

DefaultReq == [where |-> None, sort |-> <<>>, max_results |-> 0, page |-> 1]

InitDocs ==
    /\ config = DocsConfig
    /\ NoClients
    /\ EmptyEngine
    /\ NoCall
    /\ phase = "start"
    /\ resource = Items
    /\ args = EmptyDict
    /\ req = None
    /\ lookup = <<>>
    /\ query = None
    /\ resolved = None
    /\ counted = None
    /\ input = None

\* A behaviour is a sequence of inserts followed by one read: a read leaves
\* the engine as it is, so what follows it follows the state before it too.
\* Reading holds until that read.
Reading == phase \in {"start", "insert"}

DocsIdle == UNCHANGED <<config, threads, args, req, lookup, query, resolved, counted, input>>

get_parent_id(document) ==
    LET join_field == Get(document, "join_field", None)
    IN  IF Truthy(join_field) /\ "parent" \in DOMAIN join_field
        THEN join_field.parent ELSE None

_update_parent_join_args(args_, document) ==
    IF Truthy(get_parent_id(document))
    THEN SetItem(args_, "routing", get_parent_id(document)) ELSE args_

Pop(d, key) == [k \in DOMAIN d \ {key} |-> d[k]]

RECURSIVE InsertDocs(_, _, _, _)
\* The loop of insert writing the document as it was passed, _id included.
InsertDocs_body_with_id(docs, kwargs, done, rejected) ==
    IF docs = <<>> THEN done
    ELSE LET doc == Head(docs)
             routed == _update_parent_join_args(kwargs, doc)
             _id == Get(doc, "_id", None)
             res == Index(done.store, done.next_id, routed, _id, doc)
         IN  InsertDocs(Tail(docs), routed,
                        [done EXCEPT !.store = res.store, !.next_id = res.next_id,
                                     !.ids = Append(@, res._id),
                                     !.docs = Append(@, SetDefault(doc, "_id", res._id)),
                                     !.calls = Append(@, [op |-> "index", body |-> doc,
                                                          id |-> _id, args |-> routed])],
                        rejected)

\* The loop of insert: kwargs is one dict for the whole call. rejected is the
\* position of the write the engine rejects (0: none); the exception ends the
\* loop with the document's _id popped and the later documents untouched.
\* done.docs are the documents of the caller as the loop leaves them.
InsertDocs(docs, kwargs, done, rejected) ==
    IF docs = <<>> THEN done
    ELSE LET doc == Head(docs)
             routed == _update_parent_join_args(kwargs, doc)
             _id == Get(doc, "_id", None)
             body == Pop(doc, "_id")
             call == [op |-> "index", body |-> body, id |-> _id, args |-> routed]
             res == Index(done.store, done.next_id, routed, _id, body)
         IN  IF Len(done.calls) + 1 = rejected
             THEN [done EXCEPT !.calls = Append(@, call),
                               !.docs = @ \o <<body>> \o Tail(docs),
                               !.raised = "TransportError"]
             ELSE InsertDocs(Tail(docs), routed,
                             [done EXCEPT !.store = res.store, !.next_id = res.next_id,
                                          !.ids = Append(@, res._id),
                                          !.docs = Append(@, SetDefault(body, "_id", res._id)),
                                          !.calls = Append(@, call)],
                             rejected)

\* The state of a write loop before its first document.
NothingDone == [store |-> store, next_id |-> next_id, ids |-> <<>>, docs |-> <<>>,
                calls |-> <<>>, raised |-> "no"]

\* _refresh_resource_index issuing the refresh whatever the configuration.
_refresh_resource_index_always(cfg, resource_) ==
    <<[op |-> "refresh", index |-> _resource_index(cfg, resource_).value]>>

\* _refresh_resource_index: the engine calls it issues.
_refresh_resource_index(cfg, resource_) ==
    IF _resource_config(cfg, resource_, "FORCE_REFRESH", TRUE).value
    THEN <<[op |-> "refresh", index |-> _resource_index(cfg, resource_).value]>>
    ELSE <<>>

\* What a handler raises when _es_args or elastic() raised.
Failed(es_args, client) == es_args.raised # "no" \/ client.raised # "no"
Failure(es_args, client) ==
    IF es_args.raised # "no" THEN es_args ELSE Raised(client.raised)

Inserted(resource_, client, done) ==
    /\ elastics' = client.elastics
    /\ created' = client.created
    /\ store' = done.store
    /\ next_id' = done.next_id
    /\ UNCHANGED indices
    /\ IF done.raised # "no"
       THEN /\ calls' = done.calls
            /\ result' = Raised(done.raised)
       ELSE /\ calls' = done.calls \o _refresh_resource_index(config, resource_)
            /\ result' = Returned([list |-> done.ids])

insert(resource_, doc_or_docs, es_args, client, rejected) ==
    IF Failed(es_args, client)
    THEN /\ result' = Failure(es_args, client)
         /\ UNCHANGED <<elastics, created, engineVars, calls>>
    ELSE Inserted(resource_, client,
                  InsertDocs(doc_or_docs, es_args.value, NothingDone, rejected))

Insert ==
    /\ Reading
    /\ \E resource_ \in DOMAIN config.domain, doc_or_docs \in Strings(InputDocs, MaxDocs) :
           /\ Cardinality(store) + Len(doc_or_docs) <= MaxDocs
           /\ insert(resource_, doc_or_docs, _es_args(config, resource_, FALSE, <<>>),
                     elastic(config, elastics, created, resource_), 0)
           /\ phase' = "insert"
           /\ resource' = resource_
           /\ reply' = None
           /\ DocsIdle

\* The search of a read: the call, the engine's answer, and what the handler
\* makes of the answer.
Searched(client, es_args, body, reply_, outcome) ==
    /\ elastics' = client.elastics
    /\ created' = client.created
    /\ calls' = <<[op |-> "search", body |-> body, args |-> es_args]>>
    /\ reply' = reply_
    /\ result' = outcome

\* find with the default request and no sub-resource lookup.
find(resource_, built, es_args, client) ==
    IF built.raised # "no"
    THEN /\ result' = built
         /\ UNCHANGED <<elastics, created, calls, reply>>
    ELSE IF Failed(es_args, client)
    THEN /\ result' = Failure(es_args, client)
         /\ UNCHANGED <<elastics, created, calls, reply>>
    ELSE \E reply_ \in SearchReplies(store, es_args.value, built.value) :
            Searched(client, es_args.value, built.value, reply_,
                     find_result(config, reply_, resource_))

Find ==
    /\ Reading
    /\ \E resource_ \in DOMAIN config.domain, args_ \in DocArgs :
           /\ find(resource_, find_query(config, resource_, args_, DefaultReq, <<>>),
                   _es_args(config, resource_, FALSE, source_projections(args_)),
                   elastic(config, elastics, created, resource_))
           /\ phase' = "find"
           /\ resource' = resource_
           /\ UNCHANGED engineVars
           /\ DocsIdle

LookupGet(lookup_, key, default) ==
    IF \E i \in 1..Len(lookup_) : lookup_[i].key = key
    THEN lookup_[CHOOSE i \in 1..Len(lookup_) : lookup_[i].key = key].val
    ELSE default

\* What a search of find_one or _find_by_id comes to: docs.first(), None on
\* NotFoundError, any other failure raised.
first_of(docs) == IF docs.raised # "no" THEN docs ELSE Returned(first(docs.value))

first_of_search(cfg, reply_, resource_) ==
    IF IsFailure(reply_)
    THEN IF reply_.exception = "NotFoundError" THEN Returned(None)
         ELSE Raised(reply_.exception)
    ELSE first_of(_parse_hits(cfg, reply_, resource_))

is_found(hit) ==
    IF "exists" \in DOMAIN hit THEN hit.exists ELSE Get(hit, "found", FALSE)

IsRoutingMissing_exact_only(error) == error = "routing_missing_exception"

IsRoutingMissing(error) ==
    \/ error = "routing_missing_exception"
    \/ error = "RoutingMissingException[routing is required]"

IdQuery(_id) == "query" :> ("bool" :> ("must" :> <<"term" :> ("_id" :> _id)>>))

\* _find_by_id after the get: the search that follows a routing failure, or
\* the hit parsed.
Got(resource_, get_call, hit, search_args, by_id) ==
    IF IsFailure(hit) /\ hit.exception = "TransportError" /\ IsRoutingMissing(hit.error)
    THEN \E reply_ \in SearchReplies(store, search_args, by_id) :
            /\ calls' = <<get_call, [op |-> "search", body |-> by_id, args |-> search_args]>>
            /\ reply' = reply_
            /\ result' = first_of_search(config, reply_, resource_)
    ELSE /\ calls' = <<get_call>>
         /\ reply' = hit
         /\ result' = IF IsFailure(hit) \/ ~is_found(hit) THEN Returned(None)
                      ELSE first_of_search(config, "hits" :> [hits |-> <<hit>>], resource_)

get_by_id(resource_, _id, get_args, search_args, client) ==
    /\ elastics' = client.elastics
    /\ created' = client.created
    /\ \E hit \in GetReplies(store, get_args, _id) :
          Got(resource_, [op |-> "get", id |-> _id, args |-> get_args, answer |-> hit],
              hit, search_args, IdQuery(_id))

_find_by_id(resource_, _id, parent, es_args, client) ==
    IF Failed(es_args, client)
    THEN /\ result' = Failure(es_args, client)
         /\ UNCHANGED <<elastics, created, calls, reply>>
    ELSE get_by_id(resource_, _id,
                   IF Truthy(parent) THEN SetItem(es_args.value, "parent", parent)
                   ELSE es_args.value,
                   SetItem(es_args.value, "size", 1), client)

LookupQuery(lookup_) ==
    "query" :> ("bool" :> ("filter" :> _build_lookup_filter(lookup_).list))

find_by_lookup(resource_, body, es_args, client) ==
    IF Failed(es_args, client)
    THEN /\ result' = Failure(es_args, client)
         /\ UNCHANGED <<elastics, created, calls, reply>>
    ELSE \E reply_ \in SearchReplies(store, SetItem(es_args.value, "size", 1), body) :
            Searched(client, SetItem(es_args.value, "size", 1), body, reply_,
                     first_of_search(config, reply_, resource_))

find_one(resource_, lookup_, es_args) ==
    IF LookupGet(lookup_, ID_FIELD, None) # None
    THEN _find_by_id(resource_, LookupGet(lookup_, ID_FIELD, None),
                     LookupGet(lookup_, "parent", None), es_args,
                     elastic(config, elastics, created, resource_))
    ELSE find_by_lookup(resource_, LookupQuery(lookup_), es_args,
                        elastic(config, elastics, created,
                                _get_index_prefix(config, resource_)))

FindOne ==
    /\ Reading
    /\ \E resource_ \in DOMAIN config.domain, lookup_ \in DocLookups :
           /\ find_one(resource_, lookup_, _es_args(config, resource_, FALSE, <<>>))
           /\ phase' = "find_one"
           /\ resource' = resource_
           /\ UNCHANGED engineVars
           /\ DocsIdle

FindOneRaw ==
    /\ Reading
    /\ \E resource_ \in DOMAIN config.domain, _id \in {GeneratedId(0), Text(2)} :
           /\ _find_by_id(resource_, _id, None, _es_args(config, resource_, FALSE, <<>>),
                          elastic(config, elastics, created, resource_))
           /\ phase' = "find_one_raw"
           /\ resource' = resource_
           /\ UNCHANGED engineVars
           /\ DocsIdle

Fetched(client, es_args, ids, reply_, outcome) ==
    /\ elastics' = client.elastics
    /\ created' = client.created
    /\ calls' = <<[op |-> "mget", body |-> [ids |-> ids], args |-> es_args]>>
    /\ reply' = reply_
    /\ result' = outcome

find_list_of_ids(resource_, ids, es_args, client) ==
    IF Failed(es_args, client)
    THEN /\ result' = Failure(es_args, client)
         /\ UNCHANGED <<elastics, created, calls, reply>>
    ELSE Fetched(client, es_args.value, ids, MgetReply(store, es_args.value, ids),
                 _parse_hits(config, MgetReply(store, es_args.value, ids), resource_))

FindListOfIds ==
    /\ Reading
    /\ \E resource_ \in DOMAIN config.domain, ids \in DocIds :
           /\ find_list_of_ids(resource_, ids, _es_args(config, resource_, FALSE, <<>>),
                               elastic(config, elastics, created, resource_))
           /\ phase' = "find_list_of_ids"
           /\ resource' = resource_
           /\ UNCHANGED engineVars
           /\ DocsIdle

NextDocs == Insert \/ Find \/ FindOne \/ FindOneRaw \/ FindListOfIds

SpecDocs == InitDocs /\ [][NextDocs]_vars

----------------------------------------------------------------------------
\* parse_date on its own

MaxMoment == 1
MaxListLen == 2

StoredStrings ==
    [str : {"iso", "lenient", "malformed", "text"}, t : 0..MaxMoment]
    \cup {[str |-> "empty", t |-> 0]}

\* The values a stored field may hold: None, a string, a list of strings.
StoredValues ==
    {None} \cup StoredStrings \cup {[list |-> l] : l \in Strings(StoredStrings, MaxListLen)}

InitParseDate ==
    /\ config = DefaultConfig
    /\ NoClients
    /\ EmptyEngine
    /\ NoCall
    /\ phase = "start"
    /\ resource = Items
    /\ args = EmptyDict
    /\ req = None
    /\ lookup = <<>>
    /\ query = None
    /\ resolved = None
    /\ counted = None
    /\ input \in StoredValues

ParseDate ==
    /\ phase = "start"
    /\ phase' = "parse_date"
    /\ result' = parse_date(input)
    /\ UNCHANGED <<config, clientVars, engineVars, calls, reply,
                   resource, args, req, lookup, query, resolved, counted, input>>

NextParseDate == ParseDate

SpecParseDate == InitParseDate /\ [][NextParseDate]_vars

----------------------------------------------------------------------------
\* update, replace and remove

MaxRetry == 2
DefaultRetry == 5

\* ELASTICSEARCH_RETRY_ON_CONFLICT: not configured, None or a count.
RetryCounts == {None} \cup {[int |-> n] : n \in 0..MaxRetry}
WriteConfigs ==
    {DefaultConfig}
    \cup {DefaultConfig @@ ("ELASTICSEARCH_RETRY_ON_CONFLICT" :> v) : v \in RetryCounts}

_get_retry_on_conflict(cfg) ==
    Get(cfg, "ELASTICSEARCH_RETRY_ON_CONFLICT", [int |-> DefaultRetry])

\* update: args after the retry_on_conflict test.
update_args_always_retry(cfg, args_) ==
    SetItem(args_, "retry_on_conflict", _get_retry_on_conflict(cfg))

update_args(cfg, args_) ==
    IF Truthy(_get_retry_on_conflict(cfg))
    THEN SetItem(args_, "retry_on_conflict", _get_retry_on_conflict(cfg))
    ELSE args_

\* update / replace: the two pops on the payload.
popped_keeps_type(document) == Pop(document, "_id")

popped(document) == Pop(Pop(document, "_id"), "_type")

WritePayloads ==
    { [name |-> Text(1)],
      [_id |-> Text(2), _type |-> Text(7), name |-> Text(2)],
      [_type |-> Text(7), join_field |-> [name |-> Text(8), parent |-> Text(3)]],
      [_id |-> Text(3)] }
WriteIds == {Text(2), Text(3)}
RemoveLookups == {None, EmptyDict, [name |-> Text(1)]} \cup {[_id |-> i] : i \in WriteIds}
RemoveParents == {None, Text(3)}

WithId(store_, index, _id) == {s \in InIndex(store_, index) : s._id = _id}

\* The engine's update: a partial document merged into the stored one, or
\* NotFoundError when no document has the id.
EngineUpdate(store_, kwargs, _id, body) ==
    IF WithId(store_, kwargs.index, _id) = {}
    THEN [exception |-> "NotFoundError", store |-> store_]
    ELSE [result |-> "updated", _id |-> _id,
          store |-> (store_ \ WithId(store_, kwargs.index, _id))
                    \cup {[s EXCEPT !._source = body.doc @@ s._source] :
                            s \in WithId(store_, kwargs.index, _id)}]

\* The engine's delete: the document removed, or NotFoundError.
EngineDelete(store_, kwargs, _id) ==
    IF WithId(store_, kwargs.index, _id) = {}
    THEN [exception |-> "NotFoundError", store |-> store_]
    ELSE [result |-> "deleted", _id |-> _id,
          store |-> store_ \ WithId(store_, kwargs.index, _id)]

InitWrite ==
    /\ config \in WriteConfigs
    /\ NoClients
    /\ EmptyEngine
    /\ NoCall
    /\ phase = "start"
    /\ resource = Items
    /\ args = EmptyDict
    /\ req = None
    /\ lookup = <<>>
    /\ query = None
    /\ resolved = None
    /\ counted = None
    /\ input = None

WriteIdle == UNCHANGED <<config, threads, next_id, indices, args, req, lookup, query, resolved, counted>>

Answered(client, call, res) ==
    /\ elastics' = client.elastics
    /\ created' = client.created
    /\ calls' = <<call>>
    /\ store' = res.store
    /\ result' = IF IsFailure(res) THEN Raised(res.exception)
                 ELSE Returned([result |-> res.result, _id |-> res._id])

Updated(id_, doc, routed, client) ==
    Answered(client, [op |-> "update", id |-> id_, body |-> [doc |-> doc], args |-> routed],
             EngineUpdate(store, routed, id_, [doc |-> doc]))

update(resource_, id_, updates, es_args, client) ==
    IF Failed(es_args, client)
    THEN /\ result' = Failure(es_args, client)
         /\ UNCHANGED <<elastics, created, store, calls>>
    ELSE Updated(id_, popped(updates),
                 _update_parent_join_args(update_args(config, es_args.value),
                                          popped(updates)),
                 client)

Update ==
    \E resource_ \in DOMAIN config.domain, id_ \in WriteIds, updates \in WritePayloads :
        /\ update(resource_, id_, updates, _es_args(config, resource_, TRUE, <<>>),
                  elastic(config, elastics, created, resource_))
        /\ phase' = "update"
        /\ resource' = resource_
        /\ input' = [id |-> id_, document |-> updates]
        /\ reply' = None
        /\ WriteIdle

Replaced(id_, doc, routed, client) ==
    Answered(client, [op |-> "index", id |-> id_, body |-> doc, args |-> routed],
             [result |-> "created", _id |-> id_,
              store |-> Index(store, next_id, routed, id_, doc).store])

replace(resource_, id_, document, es_args, client) ==
    IF Failed(es_args, client)
    THEN /\ result' = Failure(es_args, client)
         /\ UNCHANGED <<elastics, created, store, calls>>
    ELSE Replaced(id_, popped(document),
                  _update_parent_join_args(es_args.value, popped(document)), client)

ReplaceDocument ==
    \E resource_ \in DOMAIN config.domain, id_ \in WriteIds, document \in WritePayloads :
        /\ replace(resource_, id_, document, _es_args(config, resource_, TRUE, <<>>),
                   elastic(config, elastics, created, resource_))
        /\ phase' = "replace"
        /\ resource' = resource_
        /\ input' = [id |-> id_, document |-> document]
        /\ reply' = None
        /\ WriteIdle

\* remove: what it returns for the answer of the delete.
removed_raising_not_found(res) ==
    IF IsFailure(res) THEN Raised(res.exception)
    ELSE Returned([result |-> res.result, _id |-> res._id])

removed(res) ==
    IF IsFailure(res)
    THEN IF res.exception = "NotFoundError" THEN Returned(None) ELSE Raised(res.exception)
    ELSE Returned([result |-> res.result, _id |-> res._id])

Deleted(client, call, res) ==
    /\ elastics' = client.elastics
    /\ created' = client.created
    /\ calls' = <<call>>
    /\ store' = res.store
    /\ result' = removed(res)

remove(resource_, lookup_, kwargs, es_args) ==
    IF es_args.raised # "no"
    THEN /\ result' = es_args
         /\ UNCHANGED <<elastics, created, store, calls>>
    ELSE IF Truthy(lookup_) /\ Truthy(Get(lookup_, "_id", None))
    THEN IF elastic(config, elastics, created, resource_).raised # "no"
         THEN /\ result' = Raised(elastic(config, elastics, created, resource_).raised)
              /\ UNCHANGED <<elastics, created, store, calls>>
         ELSE Deleted(elastic(config, elastics, created, resource_),
                      [op |-> "delete", id |-> lookup_._id,
                       args |-> SetItem(kwargs, "refresh", TRUE)],
                      EngineDelete(store, kwargs, lookup_._id))
    ELSE /\ result' = Returned([error |-> "ValueError"])
         /\ UNCHANGED <<elastics, created, store, calls>>

Remove ==
    \E resource_ \in DOMAIN config.domain, lookup_ \in RemoveLookups, parent \in RemoveParents :
        /\ remove(resource_, lookup_,
                  IF Truthy(parent)
                  THEN SetItem(_es_args(config, resource_, FALSE, <<>>).value, "parent", parent)
                  ELSE _es_args(config, resource_, FALSE, <<>>).value,
                  _es_args(config, resource_, FALSE, <<>>))
        /\ phase' = "remove"
        /\ resource' = resource_
        /\ input' = [lookup |-> lookup_, parent |-> parent]
        /\ reply' = None
        /\ WriteIdle

NextWrite == Update \/ ReplaceDocument \/ Remove
SpecWrite == InitWrite /\ [][NextWrite]_vars

----------------------------------------------------------------------------
\* init_index, create_index and put_settings

\* uuid4: the first group of a random identifier.
Randoms == {"1f0c", "9e7a"}

generate_index_name(alias, random) == alias \o <<"_", random>>

is_elastic(datasource) ==
    \/ Get(datasource, "backend", "") = "elastic"
    \/ Get(datasource, "search_backend", "") = "elastic"

_get_elastic_resources(cfg) ==
    {r \in DOMAIN cfg.domain :
        /\ is_elastic(Get(cfg.domain[r], "datasource", EmptyDict))
        /\ Get(Get(cfg.domain[r], "datasource", EmptyDict), "source", r) = r}

RECURSIVE _get_mapping(_)
_get_field_mapping_keyword_without_copy_to(schema) ==
    IF "mapping" \in DOMAIN schema THEN schema.mapping
    ELSE IF schema.type = "dict" /\ "schema" \in DOMAIN schema
    THEN _get_mapping(schema.schema)
    ELSE IF schema.type = "list" /\ "schema" \in DOMAIN Get(schema, "schema", EmptyDict)
    THEN _get_mapping(schema.schema.schema)
    ELSE IF schema.type = "text" THEN [type |-> "text", copy_to |-> "all"]
    ELSE IF schema.type = "keyword" THEN [type |-> "keyword"]
    ELSE None

_get_field_mapping(schema) ==
    IF "mapping" \in DOMAIN schema THEN schema.mapping
    ELSE IF schema.type = "dict" /\ "schema" \in DOMAIN schema
    THEN _get_mapping(schema.schema)
    ELSE IF schema.type = "list" /\ "schema" \in DOMAIN Get(schema, "schema", EmptyDict)
    THEN _get_mapping(schema.schema.schema)
    ELSE IF schema.type = "join" THEN [type |-> "join", relations |-> schema.relations]
    ELSE IF schema.type = "datetime" /\ "ignore_malformed" \in DOMAIN schema
    THEN [type |-> "date", ignore_malformed |-> schema.ignore_malformed]
    ELSE IF schema.type = "datetime" THEN [type |-> "date"]
    ELSE IF schema.type = "text" THEN [type |-> "text", copy_to |-> "all"]
    ELSE IF schema.type = "keyword" THEN [type |-> "keyword", copy_to |-> "all"]
    ELSE None

_get_mapping(schema) ==
    [properties |-> [field \in {f \in DOMAIN schema : Truthy(_get_field_mapping(schema[f]))}
                        |-> _get_field_mapping(schema[field])]]

_get_mapping_properties(resource_config) ==
    [properties |-> Pop(SetItem(SetItem(_get_mapping(resource_config.schema).properties,
                                        DATE_CREATED, _get_field_mapping([type |-> "datetime"])),
                                LAST_UPDATED, _get_field_mapping([type |-> "datetime"])),
                        "_id")]

\* The loop of _get_indexes: one entry per index, the settings of its
\* resources merged, the mapping of the resource that comes last.
RECURSIVE IndexesOf(_, _, _)
IndexesOf(cfg, resources, acc) ==
    IF resources = <<>> \/ acc.raised # "no" THEN acc
    ELSE LET resource_ == Head(resources)
             index == _resource_index(cfg, resource_)
             known == index.value \in DOMAIN acc.indexes
             client == elastic(cfg, acc.elastics, acc.created, resource_)
             entry == IF known THEN acc.indexes[index.value]
                      ELSE [resource |-> client.client,
                            mappings |-> [doc |-> EmptyDict], settings |-> EmptyDict]
             resource_config == cfg.domain[resource_]
         IN  IF index.raised # "no" THEN IndexesOf(cfg, Tail(resources), acc)
             ELSE IF ~known /\ client.raised # "no"
             THEN [acc EXCEPT !.raised = client.raised]
             ELSE IF "schema" \notin DOMAIN resource_config
             THEN [acc EXCEPT !.raised = "KeyError"]
             ELSE IndexesOf(cfg, Tail(resources),
                      [raised |-> "no",
                       elastics |-> IF known THEN acc.elastics ELSE client.elastics,
                       created |-> IF known THEN acc.created ELSE client.created,
                       indexes |-> SetItem(acc.indexes, index.value,
                           [resource |-> entry.resource,
                            mappings |-> [doc |-> _get_mapping_properties(resource_config)],
                            settings |-> IF "settings" \in DOMAIN resource_config
                                         THEN resource_config.settings @@ entry.settings
                                         ELSE entry.settings])])

_get_indexes(cfg, elastics_, created_) ==
    IndexesOf(cfg, SetToSeq(_get_elastic_resources(cfg)),
              [raised |-> "no", elastics |-> elastics_, created |-> created_,
               indexes |-> EmptyDict])

\* es.indices.exists: an index or an alias has the name.
exists_never(indices_, index) == FALSE

exists(indices_, index) ==
    \/ index \in DOMAIN indices_
    \/ \E i \in DOMAIN indices_ : index \in indices_[i].aliases

\* What the engine makes of create and put_alias: "ok", or the call that
\* fails with a TransportError.
Outcomes == {"ok", "create fails", "put_alias fails"}

\* create_index: the engine after it and the calls it issued. A
\* TransportError of either call is logged and nothing more is done.
create_index_binds_alias_regardless(indices_, index, mappings, settings, random, outcome) ==
    LET alias == generate_index_name(index, random)
        create == [op |-> "create", index |-> index]
        bind == [op |-> "put_alias", index |-> index, name |-> alias]
        created_ == IF index \in DOMAIN indices_ THEN indices_
                    ELSE SetItem(indices_, index,
                                 [mappings |-> EmptyDict, settings |-> EmptyDict,
                                  aliases |-> {}, closed |-> FALSE])
    IN  [raised |-> "no",
         indices |-> [created_ EXCEPT ![index].aliases = @ \cup {alias}],
         calls |-> <<create, bind>>]

create_index(indices_, index, mappings, settings, random, outcome) ==
    LET alias == generate_index_name(index, random)
        body == IF Truthy(settings) THEN SetItem(mappings, "settings", settings)
                ELSE mappings
        create == IF Truthy(mappings) THEN [op |-> "create", index |-> index, body |-> body]
                  ELSE [op |-> "create", index |-> index]
        created_ == SetItem(indices_, index,
                            [mappings |-> Get(body, "mappings", EmptyDict),
                             settings |-> Get(body, "settings", EmptyDict),
                             aliases |-> {}, closed |-> FALSE])
    IN  IF ~Truthy(mappings) /\ Truthy(settings)
        THEN [raised |-> "KeyError", indices |-> indices_, calls |-> <<>>]
        ELSE IF outcome = "create fails" \/ exists(indices_, index)
        THEN [raised |-> "no", indices |-> indices_, calls |-> <<create>>]
        ELSE IF outcome = "put_alias fails"
        THEN [raised |-> "no", indices |-> created_, calls |-> <<create>>]
        ELSE [raised |-> "no",
              indices |-> [created_ EXCEPT ![index].aliases = {alias}],
              calls |-> <<create, [op |-> "put_alias", index |-> index, name |-> alias]>>]

\* What the engine makes of close, put_settings and open: "ok", or the call
\* that fails with a TransportError.
SettingsOutcomes == {"ok", "close fails", "put_settings fails", "open fails"}

\* put_settings: nothing without settings, else close, put_settings, open;
\* a failure of one of them ends the sequence and is raised.
put_settings_without_close(indices_, index, settings, outcome) ==
    IF index \notin DOMAIN indices_
    THEN [raised |-> "NotFoundError", indices |-> indices_,
          calls |-> <<[op |-> "put_settings", index |-> index, body |-> settings]>>]
    ELSE [raised |-> "no", indices |-> indices_,
          calls |-> <<[op |-> "put_settings", index |-> index, body |-> settings],
                      [op |-> "open", index |-> index]>>]

put_settings_reopens_on_failure(indices_, index, settings, outcome) ==
    IF ~Truthy(settings)
    THEN [raised |-> "no", indices |-> indices_, calls |-> <<>>]
    ELSE IF index \notin DOMAIN indices_
    THEN [raised |-> "NotFoundError", indices |-> indices_,
          calls |-> <<[op |-> "close", index |-> index]>>]
    ELSE [raised |-> IF outcome = "ok" THEN "no" ELSE "TransportError",
          indices |-> [indices_ EXCEPT ![index].closed = FALSE],
          calls |-> <<[op |-> "close", index |-> index],
                      [op |-> "put_settings", index |-> index, body |-> settings],
                      [op |-> "open", index |-> index]>>]

put_settings(indices_, index, settings, outcome) ==
    IF ~Truthy(settings)
    THEN [raised |-> "no", indices |-> indices_, calls |-> <<>>]
    ELSE IF index \notin DOMAIN indices_
    THEN [raised |-> "NotFoundError", indices |-> indices_,
          calls |-> <<[op |-> "close", index |-> index]>>]
    ELSE IF outcome = "close fails"
    THEN [raised |-> "TransportError", indices |-> indices_,
          calls |-> <<[op |-> "close", index |-> index]>>]
    ELSE IF outcome = "put_settings fails"
    THEN [raised |-> "TransportError",
          indices |-> [indices_ EXCEPT ![index].closed = TRUE],
          calls |-> <<[op |-> "close", index |-> index],
                      [op |-> "put_settings", index |-> index, body |-> settings]>>]
    ELSE [raised |-> IF outcome = "open fails" THEN "TransportError" ELSE "no",
          indices |-> [indices_ EXCEPT ![index].settings = settings @@ @,
                                       ![index].closed = (outcome = "open fails")],
          calls |-> <<[op |-> "close", index |-> index],
                      [op |-> "put_settings", index |-> index, body |-> settings],
                      [op |-> "open", index |-> index]>>]

\* The loop of init_index: an index that does not exist is created with the
\* mapping and the settings of its entry; for one that exists put_settings is
\* called with dict([('mappings', ...)]).get('settings'), which is None.
RECURSIVE InitIndexes(_, _, _, _, _)
InitIndexes(elasticindexes, todo, random, outcome, done) ==
    IF todo = <<>> \/ done.raised # "no" THEN done
    ELSE LET index == Head(todo)
             settings == elasticindexes[index]
             step == IF ~exists(done.indices, index)
                     THEN create_index(done.indices, index,
                                       [mappings |-> settings.mappings],
                                       settings.settings, random, outcome)
                     ELSE put_settings(done.indices, index,
                                       Get([mappings |-> settings.mappings], "settings", None),
                                       "ok")
         IN  InitIndexes(elasticindexes, Tail(todo), random, outcome,
                         [raised |-> step.raised, indices |-> step.indices,
                          calls |-> done.calls \o step.calls])

IndexSettings == {EmptyDict, [analysis |-> Text(1)]}
Archive == <<"archive">>
IndicesDomains ==
    { (Items :> items) @@ (Archive :> [schema |-> [body |-> [type |-> "text"]],
                                       datasource |-> [backend |-> "elastic"]])
        @@ (PublishedItems :> [schema |-> [published |-> [type |-> "datetime"]],
                               datasource |-> [backend |-> "elastic", source |-> Items]]) :
        items \in {[schema |-> [name |-> [type |-> "keyword"],
                                firstcreated |-> [type |-> "datetime"]],
                    datasource |-> [search_backend |-> "elastic"]]}
                  \cup {[schema |-> [name |-> [type |-> "keyword"],
                                     firstcreated |-> [type |-> "datetime"]],
                         datasource |-> [search_backend |-> "elastic"],
                         settings |-> st] : st \in IndexSettings} }
IndicesConfigs == {[DefaultConfig EXCEPT !.domain = d] : d \in IndicesDomains}
StoredMappings ==
    {None, [mappings |-> [doc |-> [properties |-> [name |-> [type |-> "text"]]]]]}

InitIndices ==
    /\ config \in IndicesConfigs
    /\ NoClients
    /\ EmptyEngine
    /\ NoCall
    /\ phase = "start"
    /\ resource = Items
    /\ args = EmptyDict
    /\ req = None
    /\ lookup = <<>>
    /\ query = None
    /\ resolved = None
    /\ counted = None
    /\ input = None

IndicesIdle ==
    UNCHANGED <<config, threads, store, next_id, reply, resource, args, req, lookup, query,
                resolved, counted>>

Managed(done) ==
    /\ indices' = done.indices
    /\ calls' = done.calls
    /\ result' = IF done.raised # "no" THEN Raised(done.raised) ELSE Returned(None)

init_index(elasticindexes, random, outcome) ==
    IF elasticindexes.raised # "no"
    THEN /\ result' = Raised(elasticindexes.raised)
         /\ UNCHANGED <<elastics, created, indices, calls>>
    ELSE /\ elastics' = elasticindexes.elastics
         /\ created' = elasticindexes.created
         /\ Managed(InitIndexes(elasticindexes.indexes,
                                SetToSeq(DOMAIN elasticindexes.indexes), random, outcome,
                                [raised |-> "no", indices |-> indices, calls |-> <<>>]))

RunInitIndex ==
    \E random \in Randoms, outcome \in Outcomes :
        /\ init_index(_get_indexes(config, elastics, created), random, outcome)
        /\ phase' = "init_index"
        /\ input' = [random |-> random]
        /\ IndicesIdle

CreateIndex ==
    \E index \in {Items}, mappings \in StoredMappings, settings \in IndexSettings,
       random \in Randoms, outcome \in Outcomes :
        /\ Managed(create_index(indices, index, mappings, settings, random, outcome))
        /\ phase' = "create_index"
        /\ input' = [index |-> index, random |-> random]
        /\ UNCHANGED <<elastics, created>>
        /\ IndicesIdle

PutSettings ==
    \E index \in {Items}, settings \in {None} \cup IndexSettings,
       outcome \in SettingsOutcomes :
        /\ Managed(put_settings(indices, index, settings, outcome))
        /\ phase' = "put_settings"
        /\ input' = [index |-> index, settings |-> settings]
        /\ UNCHANGED <<elastics, created>>
        /\ IndicesIdle

\* put_mapping: the engine after one indices.put_mapping call. The engine
\* answers NotFoundError for an index it does not hold, which is raised, and
\* RequestError for a mapping it rejects, which is logged.
pushed_raising_rejection(done, client, call, rejects) ==
    [raised |-> IF call.index \notin DOMAIN done.indices THEN "NotFoundError"
                ELSE IF rejects THEN "RequestError" ELSE "no",
     elastics |-> client.elastics, created |-> client.created,
     indices |-> IF call.index \notin DOMAIN done.indices \/ rejects THEN done.indices
                 ELSE [done.indices EXCEPT ![call.index].mappings = [doc |-> call.body]],
     calls |-> Append(done.calls, call)]

pushed(done, client, call, rejects) ==
    [raised |-> IF call.index \notin DOMAIN done.indices THEN "NotFoundError" ELSE "no",
     elastics |-> client.elastics, created |-> client.created,
     indices |-> IF call.index \notin DOMAIN done.indices \/ rejects THEN done.indices
                 ELSE [done.indices EXCEPT ![call.index].mappings = [doc |-> call.body]],
     calls |-> Append(done.calls, call)]

\* The loop of put_mapping over _get_elastic_resources(), whose members
\* pass the two tests of the loop already.
RECURSIVE PutMappings(_, _, _, _, _)
PutMappings(cfg, resources, index, rejected, done) ==
    IF resources = <<>> \/ done.raised # "no" THEN done
    ELSE LET resource_ == Head(resources)
             target == IF Truthy(index) THEN Returned(index.index)
                       ELSE _resource_index(cfg, resource_)
             client == elastic(cfg, done.elastics, done.created, resource_)
         IN  IF "schema" \notin DOMAIN cfg.domain[resource_]
             THEN [done EXCEPT !.raised = "KeyError"]
             ELSE IF target.raised # "no" THEN [done EXCEPT !.raised = target.raised]
             ELSE IF client.raised # "no" THEN [done EXCEPT !.raised = client.raised]
             ELSE PutMappings(cfg, Tail(resources), index, rejected,
                      pushed(done, client,
                             [op |-> "put_mapping", index |-> target.value,
                              doc_type |-> "doc",
                              body |-> _get_mapping_properties(cfg.domain[resource_])],
                             resource_ \in rejected))

put_mapping(done) ==
    /\ elastics' = done.elastics
    /\ created' = done.created
    /\ Managed(done)

PutMapping ==
    \E index \in {None, [index |-> Items]}, rejected \in SUBSET _get_elastic_resources(config) :
        /\ put_mapping(PutMappings(config, SetToSeq(_get_elastic_resources(config)), index,
                                   rejected,
                                   [raised |-> "no", elastics |-> elastics,
                                    created |-> created, indices |-> indices,
                                    calls |-> <<>>]))
        /\ phase' = "put_mapping"
        /\ input' = [index |-> index, rejected |-> rejected]
        /\ IndicesIdle

NextIndices == RunInitIndex \/ CreateIndex \/ PutSettings \/ PutMapping
SpecIndices == InitIndices /\ [][NextIndices]_vars

----------------------------------------------------------------------------
\* _get_field_mapping on its own

MaxNesting == 1

MappingOverrides ==
    {[type |-> "text"], [type |-> "text", copy_to |-> "all"], [type |-> "keyword"]}

ScalarDescriptors ==
    {[type |-> t] : t \in {"text", "keyword", "datetime", "integer", "string", "objectid"}}
    \cup {[type |-> t, mapping |-> m] : t \in {"text", "keyword"}, m \in MappingOverrides}
    \cup {[type |-> "datetime", ignore_malformed |-> TRUE],
          [type |-> "join", relations |-> [parent |-> "child"]]}

\* The descriptors nested to a depth; the item of a list is no list.
RECURSIVE Descriptors(_)
Descriptors(n) ==
    IF n = 0 THEN ScalarDescriptors
    ELSE Descriptors(n - 1)
         \cup {[type |-> "dict"]}
         \cup {[type |-> "dict", schema |-> [field |-> d]] : d \in Descriptors(n - 1)}
         \cup {[type |-> "list", schema |-> d] :
                  d \in {d \in Descriptors(n - 1) : d.type # "list"}}
         \cup {[type |-> "list", schema |-> [type |-> "dict", schema |-> [field |-> d]]] :
                  d \in Descriptors(n - 1)}

InitFieldMapping ==
    /\ config = DefaultConfig
    /\ NoClients
    /\ EmptyEngine
    /\ NoCall
    /\ phase = "start"
    /\ resource = Items
    /\ args = EmptyDict
    /\ req = None
    /\ lookup = <<>>
    /\ query = None
    /\ resolved = None
    /\ counted = None
    /\ input \in Descriptors(MaxNesting)

FieldMapping ==
    /\ phase = "start"
    /\ phase' = "field_mapping"
    /\ result' = Returned(_get_field_mapping(input))
    /\ UNCHANGED <<config, clientVars, engineVars, calls, reply, resource, args, req, lookup,
                   query, resolved, counted, input>>

NextFieldMapping == FieldMapping
SpecFieldMapping == InitFieldMapping /\ [][NextFieldMapping]_vars

----------------------------------------------------------------------------
\* insert and bulk_insert with writes the engine rejects

\* Both prefixes have a url; FORCE_REFRESH is left to its default, switched
\* off for the default prefix, or switched off for the prefix FOO only.
InsertConfigs ==
    [ domain : {IndexDomain},
      ELASTICSEARCH_INDEX_PREFIX : {<<>>},
      INDEXES : {EmptyDict},
      URL : {[ELASTICSEARCH |-> "http://localhost:9200/", FOO |-> "http://foo:9200/"]},
      FORCE_REFRESH : {EmptyDict, "ELASTICSEARCH" :> FALSE,
                       [ELASTICSEARCH |-> TRUE, FOO |-> FALSE]},
      ELASTICSEARCH_AUTO_AGGREGATIONS : {TRUE} ]

\* A plain document, a parent with its own id, a child without an id, a child
\* of another parent with an id, and a document whose _id is None.
InsertInputs ==
    { [name |-> Text(1)],
      [_id |-> Text(2), join_field |-> [name |-> Text(6)]],
      [join_field |-> [name |-> Text(5), parent |-> Text(2)]],
      [_id |-> Text(3), _routing |-> Text(4),
       join_field |-> [name |-> Text(5), parent |-> Text(4)]],
      [_id |-> None, name |-> Text(1)] }

InitInsert ==
    /\ config \in InsertConfigs
    /\ NoClients
    /\ EmptyEngine
    /\ NoCall
    /\ phase = "start"
    /\ resource = Items
    /\ args = EmptyDict
    /\ req = None
    /\ lookup = <<>>
    /\ query = None
    /\ resolved = None
    /\ counted = None
    /\ input = None

InsertIdle == UNCHANGED <<config, threads, args, req, lookup, query, resolved, counted>>

\* insert(resource, doc_or_docs): input keeps the documents as they were
\* passed and as the call left them, and the write the engine rejected.
InsertDocuments ==
    \E resource_ \in {Items, ItemsFoo}, doc_or_docs \in Strings(InsertInputs, MaxDocs),
       rejected \in 0..MaxDocs :
           /\ rejected <= Len(doc_or_docs)
           /\ Cardinality(store) + Len(doc_or_docs) <= MaxDocs
           /\ LET es_args == _es_args(config, resource_, FALSE, <<>>)
                  client == elastic(config, elastics, created, resource_)
              IN  /\ insert(resource_, doc_or_docs, es_args, client, rejected)
                  /\ input' = [doc_or_docs |-> doc_or_docs, rejected |-> rejected,
                               left |-> InsertDocs(doc_or_docs, es_args.value,
                                                   NothingDone, rejected).docs]
           /\ phase' = "insert"
           /\ resource' = resource_
           /\ reply' = None
           /\ InsertIdle

\* helpers.bulk(client, docs, **kwargs): every action of the one chunk is sent,
\* each with the _id and _routing of its document taken out of the body; the
\* actions the engine accepts are applied, and a rejected one raises
\* BulkIndexError after the chunk.
RECURSIVE bulk(_, _, _, _)
bulk(docs, kwargs, done, rejected) ==
    IF docs = <<>> THEN done
    ELSE LET doc == Head(docs)
             _id == Get(doc, "_id", None)
             body == Pop(Pop(doc, "_id"), "_routing")
             routed == IF "_routing" \in DOMAIN doc
                       THEN SetItem(kwargs, "routing", doc._routing) ELSE kwargs
             action == [_id |-> _id, _routing |-> Get(doc, "_routing", None), body |-> body]
             res == Index(done.store, done.next_id, routed, _id, body)
         IN  IF Len(done.docs) + 1 = rejected
             THEN bulk(Tail(docs), kwargs,
                       [done EXCEPT !.docs = Append(@, action),
                                    !.raised = "BulkIndexError"],
                       rejected)
             ELSE bulk(Tail(docs), kwargs,
                       [done EXCEPT !.store = res.store, !.next_id = res.next_id,
                                    !.ids = Append(@, res._id),
                                    !.docs = Append(@, action)],
                       rejected)

\* bulk_insert(resource, docs): the call of bulk and the refresh after it.
bulk_insert(resource_, docs, es_args, client, rejected) ==
    IF Failed(es_args, client)
    THEN /\ result' = Failure(es_args, client)
         /\ UNCHANGED <<elastics, created, engineVars, calls>>
    ELSE LET done == bulk(docs, es_args.value, NothingDone, rejected)
             call == [op |-> "bulk", actions |-> done.docs, args |-> es_args.value]
         IN  /\ elastics' = client.elastics
             /\ created' = client.created
             /\ store' = done.store
             /\ next_id' = done.next_id
             /\ UNCHANGED indices
             /\ IF done.raised # "no"
                THEN /\ calls' = <<call>>
                     /\ result' = Raised(done.raised)
                ELSE /\ calls' = <<call>> \o _refresh_resource_index(config, resource_)
                     /\ result' = Returned([success |-> [int |-> Len(done.ids)],
                                            errors |-> [list |-> <<>>]])

BulkInsert ==
    \E resource_ \in {Items, ItemsFoo}, docs \in Strings(InsertInputs, MaxDocs),
       rejected \in 0..MaxDocs :
           /\ rejected <= Len(docs)
           /\ Cardinality(store) + Len(docs) <= MaxDocs
           /\ bulk_insert(resource_, docs, _es_args(config, resource_, FALSE, <<>>),
                          elastic(config, elastics, created, resource_), rejected)
           /\ input' = [doc_or_docs |-> docs, rejected |-> rejected, left |-> docs]
           /\ phase' = "bulk_insert"
           /\ resource' = resource_
           /\ reply' = None
           /\ InsertIdle

NextInsert == InsertDocuments \/ BulkInsert

SpecInsert == InitInsert /\ [][NextInsert]_vars

----------------------------------------------------------------------------
\* build_elastic_query on its own

MaxKeys == 2

\* The loop over doc.keys(): doc is the sequence of its items in iteration
\* order, done the query and the filters so far.
RECURSIVE BuildClauses(_, _)
BuildClauses(doc, done) ==
    IF doc = <<>> THEN done
    ELSE LET key == Head(doc).key
             _value == Head(doc).val
         IN  BuildClauses(Tail(doc),
                 IF key = "q"
                 THEN [done EXCEPT !.elastic_query =
                          [query |-> _build_query_string(_value, None, "AND")]]
                 ELSE [done EXCEPT !.filters =
                          Append(@, IF "list" \in DOMAIN _value
                                    THEN "terms" :> (key :> _value.list)
                                    ELSE "term" :> (key :> _value))])

\* set_filters is called with two arguments, so base_filters is its default.
build_elastic_query(doc) ==
    LET built == BuildClauses(doc, [elastic_query |-> [query |-> EmptyDict], filters |-> <<>>])
    IN  set_filters(built.elastic_query, built.filters, None)

FacetValues == {Text(1), [list |-> <<Text(1)>>]}

QueryItems ==
    {[key |-> "q", val |-> q] : q \in Strings(QChars, MaxQLen)}
    \cup {[key |-> k, val |-> v] : k \in {"type", "source"}, v \in FacetValues}

\* A dict has each key once.
QueryDocs ==
    {doc \in Strings(QueryItems, MaxKeys) :
        \A i, j \in 1..Len(doc) : doc[i].key = doc[j].key => i = j}

InitBuildQuery ==
    /\ config = DefaultConfig
    /\ NoClients
    /\ EmptyEngine
    /\ NoCall
    /\ phase = "start"
    /\ resource = Items
    /\ args = EmptyDict
    /\ req = None
    /\ lookup = <<>>
    /\ query = None
    /\ resolved = None
    /\ counted = None
    /\ input \in QueryDocs

BuildElasticQuery ==
    /\ phase = "start"
    /\ phase' = "build_elastic_query"
    /\ result' = build_elastic_query(input)
    /\ UNCHANGED <<config, clientVars, engineVars, calls, reply,
                   resource, args, req, lookup, query, resolved, counted, input>>

NextBuildQuery == BuildElasticQuery

SpecBuildQuery == InitBuildQuery /\ [][NextBuildQuery]_vars

----------------------------------------------------------------------------
\* Claims on the query document of find

Range(seq) == {seq[i] : i \in DOMAIN seq}

\* The query document is the one handed to the search call.
Emitted == phase = "search"

BoolOf(q) == Get(q.query, "bool", EmptyDict)
MustOf(q) == Get(BoolOf(q), "must", <<>>)
FilterOf(q) == Get(BoolOf(q), "filter", <<>>)

SourceConfigOf == config.domain[resource].datasource

\* The non-null filters of the resource: elastic_filter and the result of
\* elastic_filter_callback.
ResourceFilters ==
    {Get(SourceConfigOf, key, None) : key \in {"elastic_filter", "elastic_filter_callback"}}
    \ {None}

\* The override carries a filter clause of its own.
SourceHasFilter ==
    /\ "source" \in DOMAIN args
    /\ "query" \in DOMAIN args.source
    /\ "filter" \in DOMAIN args.source.query

\* The filter the override contributes: its filter clause, or its whole
\* query clause when that has no filter.
SourceContributes ==
    /\ "source" \in DOMAIN args
    /\ "query" \in DOMAIN args.source
    /\ (SourceHasFilter => args.source.query.filter # None)

HasFreeText == "q" \in DOMAIN args /\ args.q # <<>>

MustRequested ==
    \/ HasFreeText
    \/ lookup # <<>>
    \/ ("filter" \in DOMAIN args /\ args.filter # None)
    \/ ("filters" \in DOMAIN args /\ Range(args.filters) \ {None} # {})

FilterRequested ==
    \/ ResourceFilters # {}
    \/ SourceContributes
    \/ req.where # None

\* C1 as stated: bool is present only if a must or filter clause was
\* collected, and a request that collects nothing has no bool key.
C1_BoolOnlyWithClauses ==
    Emitted =>
        /\ ("bool" \in DOMAIN query.query => MustRequested \/ FilterRequested)
        /\ (~MustRequested /\ ~FilterRequested => "bool" \notin DOMAIN query.query)

\* C1, amended: the query of find always has the bool key; bool has a must
\* key exactly when a non-null must clause was collected and a filter key
\* exactly when a non-null filter clause was collected, so a request that
\* collects nothing emits the empty shell {bool: {}}.
C1_BoolShellKeys ==
    Emitted =>
        /\ "bool" \in DOMAIN query.query
        /\ ("must" \in DOMAIN query.query.bool <=> MustRequested)
        /\ ("filter" \in DOMAIN query.query.bool <=> FilterRequested)
        /\ DOMAIN query.query.bool \subseteq {"must", "filter"}
        /\ None \notin Range(MustOf(query)) \cup Range(FilterOf(query))

C1_Witness ==
    /\ Emitted
    /\ ~MustRequested /\ ~FilterRequested
    /\ query.query = ("bool" :> EmptyDict)

\* C2 as stated: a filter clause of the source override replaces the
\* filters of the resource in bool.filter.
C2_SourceFilterReplaces ==
    Emitted /\ SourceHasFilter /\ args.source.query.filter # None =>
        /\ args.source.query.filter \in Range(FilterOf(query))
        /\ ResourceFilters \cap Range(FilterOf(query)) = {}

\* C2, amended: a filter clause of the source override is merged with the
\* filters of the resource: bool.filter holds the non-null resource filters
\* and, after them, the filter of the override as one more entry.
C2_SourceFilterMerged ==
    Emitted /\ SourceHasFilter /\ args.source.query.filter # None =>
        LET schema_level == NotNone(<< Get(SourceConfigOf, "elastic_filter", None),
                                       Get(SourceConfigOf, "elastic_filter_callback", None) >>)
            n == Len(schema_level)
        IN  /\ Len(FilterOf(query)) > n
            /\ SubSeq(FilterOf(query), 1, n) = schema_level
            /\ FilterOf(query)[n + 1] = args.source.query.filter

C2_Witness ==
    /\ Emitted
    /\ SourceHasFilter
    /\ Cardinality(ResourceFilters) = 2
    /\ Len(FilterOf(query)) = 3
    /\ FilterOf(query)[3] = args.source.query.filter

\* C3: every non-null filter of the resource is an entry of bool.filter,
\* whatever else the request carries.
C3_ResourceFiltersKept ==
    Emitted => ResourceFilters \subseteq Range(FilterOf(query))

C3_Witness ==
    /\ Emitted
    /\ Cardinality(ResourceFilters) = 2
    /\ SourceHasFilter /\ HasFreeText /\ lookup # <<>> /\ "filter" \in DOMAIN args
    /\ ResourceFilters \subseteq Range(FilterOf(query))

IsQueryString(clause) == "query_string" \in DOMAIN clause
IsMatchPhrase(clause) == "match_phrase" \in DOMAIN clause

\* The term does not start and end with a double quote once stripped.
Unquoted(q) ==
    ~ \E i, j \in DOMAIN q :
        /\ i <= j
        /\ q[i] = "\"" /\ q[j] = "\""
        /\ \A k \in DOMAIN q : k < i \/ k > j => q[k] = " "

\* C4: an unquoted free-text term adds exactly one query_string clause to
\* bool.must and none to bool.filter, and the clause targets the declared
\* default field (all when none is declared) with the declared operator (OR
\* when none is declared).
C4_QueryStringTargetsDefaultField ==
    Emitted /\ HasFreeText /\ Unquoted(args.q) =>
        /\ Cardinality({i \in DOMAIN MustOf(query) : IsQueryString(MustOf(query)[i])}) = 1
        /\ \A f \in Range(FilterOf(query)) : ~IsQueryString(f)
        /\ \A m \in Range(MustOf(query)) :
              IsQueryString(m) =>
                  /\ m.query_string.query = args.q
                  /\ m.query_string.default_operator = Get(args, "default_operator", "OR")
                  /\ "default_field" \in DOMAIN m.query_string
                  /\ m.query_string.default_field = Get(args, "df", "all")

\* C6: each pair of the lookup is an entry {term: {key: value}} of bool.must,
\* every must entry is a single clause, and no pair is in bool.filter.
C6_LookupTermsAreMustEntries ==
    Emitted /\ lookup # <<>> =>
        /\ \A i \in DOMAIN lookup :
              LET term == "term" :> (lookup[i].key :> lookup[i].val)
              IN  term \in Range(MustOf(query)) /\ term \notin Range(FilterOf(query))
        /\ \A m \in Range(MustOf(query)) : ~IsList(m)

----------------------------------------------------------------------------
\* Claims on _build_query_string

Quote == "\""

\* p is q without its surrounding whitespace and double quotes: q is
\* whitespace, quotes, p, quotes, whitespace, and p neither starts nor ends
\* with a quote.
IsPhraseOf(p, q) ==
    \E a \in 1..Len(q) + 1, b \in 0..Len(q) :
        /\ p = SubSeq(q, a, b)
        /\ p # <<>> => Head(p) # Quote /\ p[Len(p)] # Quote
        /\ \E m \in 0..a - 1 :
              /\ \A k \in 1..m : q[k] = " "
              /\ \A k \in m + 1..a - 1 : q[k] = Quote
        /\ \E m \in b..Len(q) :
              /\ \A k \in b + 1..m : q[k] = Quote
              /\ \A k \in m + 1..Len(q) : q[k] = " "

\* C5: a term whose stripped value starts and ends with a double quote
\* gives a match_phrase on `all` of the term without its surrounding quotes
\* and whitespace, and no query_string; any other non-empty term gives no
\* match_phrase.
C5_PhraseSearch ==
    phase = "built" =>
        LET clause == result.value
        IN  IF ~Unquoted(args.q)
            THEN /\ DOMAIN clause = {"match_phrase"}
                 /\ DOMAIN clause.match_phrase = {"all"}
                 /\ IsPhraseOf(clause.match_phrase.all, args.q)
            ELSE args.q # <<>> => ~IsMatchPhrase(clause) /\ IsQueryString(clause)

C5_Witness ==
    /\ phase = "built"
    /\ args.q = <<Quote, "f", Quote>>
    /\ result.value = "match_phrase" :> ("all" :> <<"f">>)

----------------------------------------------------------------------------
\* Claims on _resource_index

SourceOf(r) == Get(config.domain[r].datasource, "source", r)
PrefixOf(r) == Get(config.domain[r], "elastic_prefix", "ELASTICSEARCH")
OverridesOf(r) == Get(config.INDEXES, PrefixOf(r), EmptyDict)

Resolved == phase = "resolved" /\ resolved.raised = "no"

\* C7 as stated: a resource that declares a source resolves to the index of
\* that source.
C7_IndexOfSource ==
    Resolved /\ SourceOf(resource) # resource =>
        resolved = _resource_index(config, SourceOf(resource))

\* C7, amended: a resource that declares a source resolves to the entry of
\* that source in the override table of the resource's own connection prefix
\* when the table has one, and otherwise to its own name behind the global
\* index prefix.
C7_IndexOfAliasedResource ==
    Resolved /\ SourceOf(resource) # resource =>
        IF SourceOf(resource) \in DOMAIN OverridesOf(resource)
        THEN resolved.value = OverridesOf(resource)[SourceOf(resource)]
        ELSE resolved.value = config.ELASTICSEARCH_INDEX_PREFIX \o resource

C7_Witness ==
    /\ Resolved
    /\ resource = PublishedItems
    /\ OverridesOf(resource) = EmptyDict
    /\ config.ELASTICSEARCH_INDEX_PREFIX = <<"px">>
    /\ resolved.value = <<"px", "published", "items">>

----------------------------------------------------------------------------
\* Claims on elastic()

ConstructedFor(px) == {t \in Threads : threads[t].px = px /\ threads[t].es # None}

\* C8: under every interleaving of concurrent first calls of elastic() that
\* resolve to the same connection prefix, at most one client instance is
\* constructed and published for the prefix, and all callers receive that
\* same instance.
C8_OneClientPerPrefix ==
    /\ \A t \in Threads : Cardinality(ConstructedFor(threads[t].px)) <= 1
    /\ \A t, u \in Threads :
          /\ threads[t].pc = "done"
          /\ threads[u].pc = "done"
          /\ threads[t].px = threads[u].px
          => threads[t].returned = threads[u].returned

----------------------------------------------------------------------------
\* Claims on ElasticCursor.count

Digits == <<"0", "1", "2", "3", "4", "5", "6", "7", "8", "9">>

\* The decimal numeral of a natural number.
RECURSIVE Decimal(_)
Decimal(n) == IF n < 10 THEN <<Digits[n + 1]>> ELSE Decimal(n \div 10) \o <<Digits[(n % 10) + 1]>>

\* C9: count() of a cursor is the numeric total its raw envelope declares,
\* and 0 when the envelope is empty or declares no total, whatever the
\* number of documents the cursor holds.
C9_CountIsDeclaredTotal ==
    phase = "counted" =>
        IF reply = EmptyDict \/ "total" \notin DOMAIN reply.hits
        THEN counted.value.int = 0
        ELSE IF "int" \in DOMAIN reply.hits.total
        THEN counted.value.int = reply.hits.total.int
        ELSE Decimal(counted.value.int) = reply.hits.total.digits

C9_Witness ==
    /\ phase = "counted"
    /\ reply # EmptyDict
    /\ Get(reply.hits, "total", None) = [int |-> 3]
    /\ Len(result.value.docs) = 1
    /\ counted.value.int = 3

----------------------------------------------------------------------------
\* Claims on the documents read back

\* The documents the last read returned.
ReturnedDocs ==
    IF phase \notin {"find", "find_one", "find_list_of_ids"} \/ result.raised # "no" THEN {}
    ELSE IF phase = "find_one"
    THEN IF result.value = None THEN {} ELSE {result.value}
    ELSE Range(result.value.docs)

\* The datetime field set of the resource read: the audit timestamps, the
\* datetime fields of its schema and those of the schema of its source.
DateFields ==
    {"_updated", "_created", "firstcreated"}
    \cup IF resource = PublishedItems THEN {"published"} ELSE {}

IsDate(v) == "date" \in DOMAIN v

StoredAs(doc) == {s \in store : s.index = DocsIndex /\ s._id = doc._id}

DatesAreParsed(doc) ==
    \A f \in DOMAIN doc \cap DateFields : doc[f] = None \/ IsDate(doc[f])

----------------------------------------------------------------------------
\* Claims on parse_date

\* C11: parse_date never propagates a parse failure: for every stored value
\* (absent, empty, string, list of strings) it returns a date or the absent
\* date.
C11_ParseDateNeverRaises ==
    phase = "parse_date" =>
        /\ result.raised = "no"
        /\ result.value = None \/ IsDate(result.value)

----------------------------------------------------------------------------
\* Claims on update, replace and remove

RetryConfigured == "ELASTICSEARCH_RETRY_ON_CONFLICT" \in DOMAIN config
SentDocument(call) == IF call.op = "update" THEN call.body.doc ELSE call.body

\* C12: whatever the payload of update or replace contains, the document sent
\* to the engine has neither _id nor _type, and the identifier travels only as
\* the id of the write.
C12_BodyWithoutIdAndType ==
    (phase \in {"update", "replace"} /\ calls # <<>>) =>
        /\ calls[1].op = (IF phase = "update" THEN "update" ELSE "index")
        /\ DOMAIN SentDocument(calls[1]) = DOMAIN input.document \ {"_id", "_type"}
        /\ "_id" \notin DOMAIN calls[1].body
        /\ "_id" \notin DOMAIN calls[1].args
        /\ calls[1].id = input.id

C12_Witness ==
    /\ phase = "replace"
    /\ calls # <<>>
    /\ {"_id", "_type"} \subseteq DOMAIN input.document
    /\ input.document._id # input.id

\* C13: update sends retry_on_conflict with the configured count when it is
\* positive, with 5 when nothing is configured, and not at all when the
\* configured count is 0 or None.
C13_RetryOnConflict ==
    (phase = "update" /\ calls # <<>>) =>
        IF ~RetryConfigured
        THEN /\ "retry_on_conflict" \in DOMAIN calls[1].args
             /\ calls[1].args.retry_on_conflict = [int |-> 5]
        ELSE IF config.ELASTICSEARCH_RETRY_ON_CONFLICT \in {None, [int |-> 0]}
        THEN "retry_on_conflict" \notin DOMAIN calls[1].args
        ELSE /\ "retry_on_conflict" \in DOMAIN calls[1].args
             /\ calls[1].args.retry_on_conflict = config.ELASTICSEARCH_RETRY_ON_CONFLICT

C13_Witness ==
    /\ phase = "update"
    /\ calls # <<>>
    /\ RetryConfigured
    /\ config.ELASTICSEARCH_RETRY_ON_CONFLICT = None
    /\ "retry_on_conflict" \notin DOMAIN calls[1].args

\* C14: a remove whose lookup identifier is not in the index returns None,
\* raises nothing and leaves the content of the index as it was.
C14_RemoveOfMissingId ==
    [][(/\ phase' = "remove"
        /\ Truthy(input'.lookup)
        /\ Truthy(Get(input'.lookup, "_id", None))
        /\ WithId(store, _resource_index(config, resource').value, input'.lookup._id) = {})
       => (result' = Returned(None) /\ store' = store)]_vars

C14_Witness ==
    /\ phase = "remove"
    /\ calls # <<>>
    /\ calls[1].op = "delete"
    /\ result = Returned(None)
    /\ store # {}

----------------------------------------------------------------------------
\* Claims on the lookup by identifier

ByIdLookup ==
    /\ phase \in {"find_one", "find_one_raw"}
    /\ calls # <<>>
    /\ calls[1].op = "get"

RoutingMissing(answer) ==
    /\ IsFailure(answer)
    /\ answer.exception = "TransportError"
    /\ answer.error \in {"routing_missing_exception",
                         "RoutingMissingException[routing is required]"}

\* C15: when the get of a lookup by identifier fails for missing routing, a
\* search of size 1 with an exact term on the identifier follows, and the
\* lookup returns the first document of that search, or None when it has
\* none; nothing raised is the routing failure: it is the failure of the
\* search, or of reading the dates of the document found.
C15_RoutingMissingFallsBackToSearch ==
    (ByIdLookup /\ RoutingMissing(calls[1].answer)) =>
        /\ Len(calls) = 2
        /\ calls[2].op = "search"
        /\ calls[2].args.size = 1
        /\ calls[2].body =
               ("query" :> ("bool" :> ("must" :> <<"term" :> ("_id" :> calls[1].id)>>)))
        /\ IF IsFailure(reply)
           THEN result = IF reply.exception = "NotFoundError" THEN Returned(None)
                         ELSE Raised(reply.exception)
           ELSE IF reply.hits.hits = <<>> THEN result = Returned(None)
           ELSE IF result.raised = "no"
           THEN result.value # None /\ result.value._id = reply.hits.hits[1]._id
           ELSE result.raised = "ParserError"

C15_Witness ==
    /\ ByIdLookup
    /\ RoutingMissing(calls[1].answer)
    /\ result.raised = "no"
    /\ result.value # None

\* C16: a transport failure of the get that is neither a miss nor a missing
\* routing reaches the caller of the lookup by identifier as it is.
C16_OtherTransportFailurePropagates ==
    (/\ ByIdLookup
     /\ IsFailure(calls[1].answer)
     /\ calls[1].answer.exception = "TransportError"
     /\ ~RoutingMissing(calls[1].answer))
    => result = Raised("TransportError")

----------------------------------------------------------------------------
\* Claims on the failures of the search of find

Rejected400 ==
    /\ phase = "done"
    /\ IsFailure(reply)
    /\ reply.exception = "RequestError"
    /\ reply.status_code = 400

\* C17: when the engine rejects the search of find with a 400 that reports a
\* missing mapping, find raises nothing and returns an empty cursor, of count
\* 0 and without documents; any other 400 is raised, as InvalidSearchString
\* when it reports a search parse failure and as it is otherwise.
C17_MissingMappingIsEmptyCursor ==
    Rejected400 =>
        IF "No mapping found for" \in reply.error
        THEN /\ result.raised = "no"
             /\ result.value.docs = <<>>
             /\ count(result.value) = 0
        ELSE IF "SearchParseException" \in reply.error
        THEN result = Raised("InvalidSearchString")
        ELSE result = Raised("RequestError")

C17_Witness ==
    /\ Rejected400
    /\ reply.error = {"No mapping found for"}
    /\ result.raised = "no"
    /\ count(result.value) = 0

----------------------------------------------------------------------------
\* Claims on init_index and create_index

TargetOf(resource_) == _resource_index(config, resource_).value

DeclaresSettings(resource_) ==
    /\ "settings" \in DOMAIN config.domain[resource_]
    /\ config.domain[resource_].settings # EmptyDict

Reconciled(issued, index, settings) ==
    \E i \in 1..(Len(issued) - 2) :
        /\ issued[i] = [op |-> "close", index |-> index]
        /\ issued[i + 1] = [op |-> "put_settings", index |-> index, body |-> settings]
        /\ issued[i + 2] = [op |-> "open", index |-> index]

\* C18: a run of init_index issues close, put_settings with the settings of
\* the resource, and open, for every target index that exists before the run
\* and whose resource declares settings that are not empty.
C18_SettingsReconciledOnExistingIndex ==
    [][phase' = "init_index" =>
          \A resource_ \in _get_elastic_resources(config) :
              (exists(indices, TargetOf(resource_)) /\ DeclaresSettings(resource_))
              => Reconciled(calls', TargetOf(resource_), config.domain[resource_].settings)]_vars

\* C19: a run of init_index leaves the mapping of every index that exists
\* before it as it is, and issues no create and no put_mapping for it, also
\* when the mapping derived from the schema is another one.
C19_ExistingIndexKeepsMapping ==
    [][phase' = "init_index" =>
          \A index \in DOMAIN indices :
              /\ index \in DOMAIN indices'
              /\ indices'[index].mappings = indices[index].mappings
              /\ \A i \in 1..Len(calls') :
                    calls'[i].index = index => calls'[i].op \notin {"create", "put_mapping"}]_vars

C19_Witness ==
    /\ phase = "init_index"
    /\ result = Returned(None)
    /\ \E resource_ \in _get_elastic_resources(config) :
          /\ TargetOf(resource_) \in DOMAIN indices
          /\ indices[TargetOf(resource_)].mappings
                 # [doc |-> _get_mapping_properties(config.domain[resource_])]

\* C20: after create_index for an alias name has issued its two calls, the
\* physical index bears the generated name, alias + "_" + random suffix, and
\* the alias name is bound to it: the alias name is no index of its own.
C20_AliasBoundToGeneratedIndex ==
    (phase = "create_index" /\ result = Returned(None) /\ Len(calls) = 2) =>
        /\ (input.index \o <<"_", input.random>>) \in DOMAIN indices
        /\ input.index \in indices[input.index \o <<"_", input.random>>].aliases
        /\ input.index \notin DOMAIN indices

----------------------------------------------------------------------------
\* Claims on the engine failures of create_index and put_settings

SettingsSequence(index, settings) ==
    <<[op |-> "close", index |-> index],
      [op |-> "put_settings", index |-> index, body |-> settings],
      [op |-> "open", index |-> index]>>

\* C21: whatever the engine answers to its calls, create_index returns
\* normally; put_alias is issued only after a create that the engine
\* accepted; and a create_index for a name that is an index already leaves
\* the engine as it was.
C21_CreateIndexSwallowsRejections ==
    [][(phase' = "create_index" /\ calls' # <<>>) =>
          /\ result' = Returned(None)
          /\ calls'[1].op = "create"
          /\ calls'[1].index = input'.index
          /\ Len(calls') <= 2
          /\ Len(calls') = 2 =>
                /\ calls'[2] = [op |-> "put_alias", index |-> input'.index,
                                name |-> input'.index \o <<"_", input'.random>>]
                /\ input'.index \notin DOMAIN indices
                /\ input'.index \in DOMAIN indices'
          /\ input'.index \in DOMAIN indices => indices' = indices]_vars

C21_Witness ==
    /\ phase = "create_index"
    /\ result = Returned(None)
    /\ Len(calls) = 1
    /\ input.index \in DOMAIN indices
    /\ indices[input.index].aliases # {}

\* C22: put_settings with settings that are not empty issues close,
\* put_settings with the body given and open on the index, in this order and
\* nothing else, when the engine accepts them; with empty or absent settings
\* it issues no call and leaves the index as it is.
C22_PutSettingsSequence ==
    [][phase' = "put_settings" =>
          IF input'.settings \in {None, EmptyDict}
          THEN calls' = <<>> /\ indices' = indices /\ result' = Returned(None)
          ELSE result'.raised = "no" =>
                   calls' = SettingsSequence(input'.index, input'.settings)]_vars

C22_Witness ==
    /\ phase = "put_settings"
    /\ result = Returned(None)
    /\ calls = SettingsSequence(input.index, input.settings)
    /\ ~indices[input.index].closed

\* C29: when the engine fails put_settings or open after the close, the
\* failure is raised as it is, no call follows the one that failed and the
\* index stays closed; open is issued only after a put_settings that the
\* engine accepted.
C29_FailureLeavesIndexClosed ==
    (phase = "put_settings" /\ result.raised # "no" /\ Len(calls) >= 2) =>
        /\ result = Raised("TransportError")
        /\ calls = SubSeq(SettingsSequence(input.index, input.settings), 1, Len(calls))
        /\ indices[input.index].closed
        /\ Len(calls) = 3 =>
              \A k \in DOMAIN input.settings :
                  /\ k \in DOMAIN indices[input.index].settings
                  /\ indices[input.index].settings[k] = input.settings[k]

C29_Witness ==
    /\ phase = "put_settings"
    /\ result = Raised("TransportError")
    /\ Len(calls) = 2
    /\ indices[input.index].closed

----------------------------------------------------------------------------
\* Claims on put_mapping

\* The resources whose datasource does not alias another resource.
CoreResources ==
    {r \in DOMAIN config.domain :
        "source" \notin DOMAIN config.domain[r].datasource
        \/ config.domain[r].datasource.source = r}

PushTarget(resource_) ==
    IF input.index = None THEN TargetOf(resource_) ELSE input.index.index

\* C23: put_mapping returns normally whichever mappings the engine rejects
\* with a request error: it issues one put_mapping call for every core
\* resource, the rejected ones and those that follow them included, and none
\* for a resource that aliases another one.
C23_PutMappingSwallowsRejections ==
    (phase = "put_mapping" /\ \A r \in CoreResources : PushTarget(r) \in DOMAIN indices) =>
        /\ result = Returned(None)
        /\ Len(calls) = Cardinality(CoreResources)
        /\ \A r \in CoreResources :
              \E i \in 1..Len(calls) :
                  /\ calls[i].op = "put_mapping"
                  /\ calls[i].index = PushTarget(r)
                  /\ calls[i].body = _get_mapping_properties(config.domain[r])
        /\ \A i \in 1..Len(calls) :
              \A r \in DOMAIN config.domain \ CoreResources :
                  calls[i].body # _get_mapping_properties(config.domain[r])

C23_Witness ==
    /\ phase = "put_mapping"
    /\ input.rejected = CoreResources
    /\ Cardinality(CoreResources) = 2
    /\ DOMAIN config.domain # CoreResources
    /\ result = Returned(None)
    /\ Len(calls) = 2

----------------------------------------------------------------------------
\* Claims on the mapping of a field

FragmentOf(fragment, field) ==
    IF fragment # None /\ "properties" \in DOMAIN fragment
       /\ field \in DOMAIN fragment.properties
    THEN fragment.properties[field] ELSE None

CopiesToAll(fragment) ==
    fragment # None /\ "copy_to" \in DOMAIN fragment /\ fragment.copy_to = "all"

\* Every descriptor of type text or keyword within the descriptor has a
\* fragment that copies to `all`.
RECURSIVE EveryTextCopiesToAll(_, _)
EveryTextCopiesToAll(descriptor, fragment) ==
    IF descriptor.type \in {"text", "keyword"} THEN CopiesToAll(fragment)
    ELSE IF descriptor.type = "dict" /\ "schema" \in DOMAIN descriptor
    THEN \A f \in DOMAIN descriptor.schema :
            EveryTextCopiesToAll(descriptor.schema[f], FragmentOf(fragment, f))
    ELSE IF descriptor.type = "list" /\ "schema" \in DOMAIN descriptor
    THEN EveryTextCopiesToAll(descriptor.schema, fragment)
    ELSE TRUE

\* The same, but a descriptor with a raw mapping override has the override
\* as its fragment, and a text or keyword descriptor that is the item of a
\* list has none.
RECURSIVE TextCopiesToAllUnlessOverridden(_, _, _)
TextCopiesToAllUnlessOverridden(descriptor, fragment, is_item) ==
    IF descriptor.type \in {"text", "keyword"}
    THEN IF is_item THEN fragment = None
         ELSE IF "mapping" \in DOMAIN descriptor THEN fragment = descriptor.mapping
         ELSE fragment = [type |-> descriptor.type, copy_to |-> "all"]
    ELSE IF descriptor.type = "dict" /\ "schema" \in DOMAIN descriptor
    THEN \A f \in DOMAIN descriptor.schema :
            TextCopiesToAllUnlessOverridden(descriptor.schema[f], FragmentOf(fragment, f), FALSE)
    ELSE IF descriptor.type = "list" /\ "schema" \in DOMAIN descriptor
    THEN TextCopiesToAllUnlessOverridden(descriptor.schema, fragment, TRUE)
    ELSE TRUE

\* C24 as stated: the fragment of every text or keyword descriptor, at top
\* level or nested in a dict or list schema, with or without a raw mapping
\* override, has copy_to `all`.
C24_TextAndKeywordCopyToAll ==
    phase = "field_mapping" => EveryTextCopiesToAll(input, result.value)

\* C24, amended: a text or keyword descriptor without override, at top level
\* or under dict schemas and lists of dict schemas, has the fragment
\* {type, copy_to: all}; with an override its fragment is the override; as
\* the item of a list it has no fragment.
C24_TextAndKeywordCopyToAllUnlessOverridden ==
    phase = "field_mapping" => TextCopiesToAllUnlessOverridden(input, result.value, FALSE)

C24_Witness ==
    /\ phase = "field_mapping"
    /\ input = [type |-> "list",
                schema |-> [type |-> "dict", schema |-> [field |-> [type |-> "keyword"]]]]
    /\ result.value = [properties |-> [field |-> [type |-> "keyword", copy_to |-> "all"]]]

----------------------------------------------------------------------------
\* Claims on elastic() for a prefix without a url

Unconfigured(t) == threads[t].px # "" /\ threads[t].px \notin DOMAIN config.URL

\* C25: a call of elastic() for a resource whose connection prefix has no url
\* configured fails instead of returning a client, the client cache never holds
\* an entry for that prefix, the failing step leaves the cache entries of all
\* prefixes as they were, and every call for that prefix fails the same way.
C25_NoUrlFailsWithoutCaching ==
    /\ [](\A t \in Threads :
            Unconfigured(t) =>
                /\ threads[t].pc \in {"construct", "raised"}
                /\ threads[t].returned = None
                /\ threads[t].es = None
                /\ threads[t].px \notin DOMAIN elastics)
    /\ [][\A t \in Threads :
            Unconfigured(t) /\ threads'[t] # threads[t] =>
                /\ threads'[t].pc = "raised"
                /\ elastics' = elastics
                /\ created' = created]_vars

\* Both callers of the prefix without a url have failed, one after the other,
\* and no client was cached.
C25_Witness ==
    /\ \A t \in Threads : Unconfigured(t) /\ threads[t].pc = "raised"
    /\ elastics = EmptyDict

\* A caller of the prefix without a url has failed while the client of the
\* default prefix, cached before, is still the one returned.
C25_WitnessOtherPrefix ==
    \E t, u \in Threads :
        /\ Unconfigured(t) /\ threads[t].pc = "raised"
        /\ threads[u].pc = "done"
        /\ threads[u].px \in DOMAIN elastics
        /\ threads[u].returned = elastics[threads[u].px]

----------------------------------------------------------------------------
\* Claims on insert and bulk_insert

InsertReturned == phase = "insert" /\ result.raised = "no"

IndexCalls == SelectSeq(calls, LAMBDA c : c.op = "index")

SuppliedId(doc) == Get(doc, "_id", None)

\* C26: insert returns one identifier per input document, in input order: the
\* _id the client supplied where the document carried one, the id the engine
\* assigned otherwise; no body written holds _id; and after the call every
\* input document carries its identifier under _id, its other fields as before.
C26_InsertIdentifiers ==
    InsertReturned =>
        LET ids == result.value.list
            docs == input.doc_or_docs
        IN  /\ Len(ids) = Len(docs)
            /\ Len(IndexCalls) = Len(docs)
            /\ \A i \in 1..Len(docs) :
                  /\ IF SuppliedId(docs[i]) # None
                     THEN ids[i] = docs[i]._id
                     ELSE /\ ids[i].str = "generated"
                          /\ ids[i].t < next_id
                          /\ IndexCalls[i].id = None
                  /\ "_id" \notin DOMAIN IndexCalls[i].body
                  /\ IndexCalls[i].body = Pop(docs[i], "_id")
                  /\ input.left[i] = SetItem(docs[i], "_id", ids[i])

\* An insert of two documents returned, one with a client-supplied _id and one
\* without.
C26_Witness ==
    /\ InsertReturned
    /\ Len(input.doc_or_docs) = 2
    /\ SuppliedId(input.doc_or_docs[1]) = None
    /\ SuppliedId(input.doc_or_docs[2]) # None
    /\ result.value.list = <<GeneratedId(0), input.doc_or_docs[2]._id>>

Writing == phase \in {"insert", "bulk_insert"}

RefreshCalls == SelectSeq(calls, LAMBDA c : c.op = "refresh")

\* The FORCE_REFRESH setting of the prefix of a resource, true when absent.
ForceRefresh(resource_) ==
    Get(config.FORCE_REFRESH, IF resource_ = ItemsFoo THEN "FOO" ELSE "ELASTICSEARCH", TRUE)

\* What the engine stores for a document: the document without the keys that
\* go into the write's parameters.
StoredBody(doc) ==
    IF phase = "bulk_insert" THEN Pop(Pop(doc, "_id"), "_routing") ELSE Pop(doc, "_id")

\* The positions of the writes of the call that the engine applied.
AppliedWrites ==
    IF phase = "bulk_insert"
    THEN (1..Len(input.doc_or_docs)) \ {input.rejected}
    ELSE IF input.rejected = 0 THEN 1..Len(input.doc_or_docs) ELSE 1..(input.rejected - 1)

\* Write i of the call is in the index, unless a later applied write of the
\* call went to the same client-supplied id.
StaysApplied(i) ==
    LET docs == input.doc_or_docs
    IN  \/ \E j \in AppliedWrites :
              j > i /\ SuppliedId(docs[i]) # None /\ SuppliedId(docs[j]) = SuppliedId(docs[i])
        \/ \E s \in store :
              /\ s.index = resource
              /\ s._source = StoredBody(docs[i])
              /\ SuppliedId(docs[i]) # None => s._id = docs[i]._id

\* C27: insert and bulk_insert refresh the resolved index exactly once, as the
\* last call after all the writes, if and only if FORCE_REFRESH of the
\* resource's prefix is truthy (the default); a call with a rejected write
\* issues no refresh while its earlier writes stay applied.
C27_RefreshOnceAfterWrites ==
    Writing =>
        IF result.raised = "no"
        THEN IF ForceRefresh(resource)
             THEN /\ Len(RefreshCalls) = 1
                  /\ calls[Len(calls)] = [op |-> "refresh", index |-> resource]
             ELSE RefreshCalls = <<>>
        ELSE /\ RefreshCalls = <<>>
             /\ input.rejected > 0
             /\ \A i \in 1..(input.rejected - 1) : StaysApplied(i)

\* A two-document call whose second write was rejected after the first was
\* applied, for a prefix that refreshes.
C27_Witness ==
    /\ Writing
    /\ result.raised # "no"
    /\ input.rejected = 2
    /\ ForceRefresh(resource)
    /\ store # {}

\* A call that wrote for the prefix FOO, whose refresh is switched off, while
\* the default prefix refreshes.
C27_WitnessNoRefresh ==
    /\ Writing
    /\ result.raised = "no"
    /\ resource = ItemsFoo
    /\ ~ForceRefresh(ItemsFoo)
    /\ ForceRefresh(Items)
    /\ Len(calls) > 0

\* The parent a document names in its join relation, None without one.
ParentOf(doc) ==
    IF "join_field" \in DOMAIN doc /\ "parent" \in DOMAIN doc.join_field
    THEN doc.join_field.parent ELSE None

\* C28: in an insert of several documents each write carries routing if and
\* only if its own document names a parent in its join relation, and then the
\* routing is that parent id, whatever documents were written before it.
C28_RoutingIsPerDocument ==
    phase = "insert" =>
        \A i \in 1..Len(IndexCalls) :
            Get(IndexCalls[i].args, "routing", None) = ParentOf(input.doc_or_docs[i])

----------------------------------------------------------------------------
\* Claims on build_elastic_query

\* The clause a key other than q is to become.
FilterClause(item) ==
    IF "list" \in DOMAIN item.val
    THEN "terms" :> (item.key :> item.val.list) ELSE "term" :> (item.key :> item.val)

\* Every clause the query document holds under bool, as must or as filter.
BoolClauses(query_) ==
    LET bool == Get(query_.query, "bool", EmptyDict)
        clauses == Get(bool, "must", <<>>) \o Get(bool, "filter", <<>>)
    IN  {clauses[i] : i \in 1..Len(clauses)}

\* C30: build_elastic_query(doc) returns a query document for every doc: the
\* key q becomes a query_string clause with default operator AND, every other
\* key a terms clause when its value is a list and a term clause otherwise,
\* and a doc of q alone yields a query without filter clauses.
C30_BuildElasticQueryReturns ==
    phase = "build_elastic_query" =>
        /\ result.raised = "no"
        /\ \A i \in 1..Len(input) :
              IF input[i].key = "q"
              THEN result.value.query.query_string
                       = [query |-> input[i].val, default_operator |-> "AND"]
              ELSE FilterClause(input[i]) \in BoolClauses(result.value)
        /\ BoolClauses(result.value) = {FilterClause(input[i]) :
                                           i \in {j \in 1..Len(input) : input[j].key # "q"}}

\* What the code does: every call ends in the TypeError of set_filters.
C30_EveryCallRaisesTypeError ==
    phase = "build_elastic_query" => result = Raised("TypeError")

====
